---- MODULE Spec2Model ----
(***************************************************************************)
(* OSAInt: the scraping / escalation dispatcher of run_pipeline and main   *)
(* (src/src/osaint.py) and the incremental graph assembler that merges the *)
(* oracle's deltas into one networkx DiGraph.                              *)
(*                                                                         *)
(* Eleven specifications are given over the same variables:                 *)
(*   Spec          the dispatch phase of one run: three search batches,    *)
(*                 the semaphore-gated fast tier, then the escalation tier *)
(*   SpecBatch     one batch of the fast tier, with the fairness of the    *)
(*                 event loop                                              *)
(*   SpecEscalate  the escalation tier alone, with every answer of the     *)
(*                 scraping API                                            *)
(*   SpecFanOut    the escalation tier with request and answer as two      *)
(*                 steps                                                   *)
(*   SpecAssemble  the assembler loop of one run over the documents the    *)
(*                 dispatch phase left in scraped_results                  *)
(*   SpecReplay    the assembler loop with the oracle's delta kept whole   *)
(*   SpecParse     the parsing of one oracle response text                 *)
(*   SpecFinish    snapshot, visualization, teardown, person selection and *)
(*                 the graph queries for the selected person               *)
(*   SpecEnrich    the enrichment lookups of get_person_details            *)
(*   SpecWeb       the request handlers of the web front end over STATE    *)
(*   SpecScrape    one retrieval through the browser session: a            *)
(*                 quick_scrape call, or a slow_scrape call inside         *)
(*                 scrape_google_page                                      *)
(* Text is modelled as a sequence of tokens, so that Python's substring    *)
(* test `a in b` is a real search for a contiguous run.                    *)
(***************************************************************************)
EXTENDS Integers, Sequences, FiniteSets, TLC

VARIABLES
    pc,               \* position of the run inside run_pipeline / main
    page,             \* loop variable of `for page in range(total_pages)`
    links_to_skip,    \* categorize_links' first result for the current batch
    links_to_process, \* categorize_links' second result for the current batch
    tasks,            \* the batch's process_link tasks, in creation order
    semaphore,        \* free permits of asyncio.Semaphore(2)
    special_links,    \* the escalation set
    scraped_results,  \* the documents, in the order the assembler will see them
    failed_links,     \* links whose escalation produced no content
    special_tasks,    \* the process_special_link tasks, in creation order
    discovered,       \* history: how often each link was returned by a search batch
    overtaken,        \* history: a task of the batch finished before an earlier one
    graph,            \* the nx.DiGraph: [node: id -> attrs, edge: <<u,v>> -> attrs]
    doc_idx,          \* number of documents the assembler loop has taken
    prompt_graph,     \* the graph serialized into the latest oracle prompt
    new_data,         \* the latest oracle response, as far as it is parsed
    pos,              \* entries of the current list the loop has taken
    entry,            \* loop variable `node` / `edge`: the entry taken last
    last_outcome,     \* how the try block ended for the latest document
    delta,            \* the latest oracle response as a whole, when it is kept
    printed,          \* the failure messages the loop printed for the latest document
    session,          \* the Scraper: which of context, browser, playwright are open
    raised,           \* the exception that ended the run, None while there is none
    person_nodes,     \* the list run_pipeline returns next to the graph
    person_id,        \* the node chosen on the selection page
    associated,       \* get_person_details' three identifier sets
    subgraph,         \* the nodes and edges get_person_subgraph returns
    data,             \* response["data"]: the oracle's text
    parsed,           \* what the assembler's parsing step makes of data
    env,              \* what the browser does during one retrieval
    scrape_result,    \* how that quick_scrape or slow_scrape call ended
    page_links,       \* the list scrape_google_page returns for the search page
    hibp_results,     \* get_person_details: email -> breach-database result
    sherlock_results, \* get_person_details: username -> username-enumeration result
    holehe_results,   \* get_person_details: email -> provider-enumeration result
    timeline,         \* history: the lookups and delays of the enrichment pass, in order
    State,            \* app.py's module-level dict STATE: which run's objects its keys hold
    handlers,         \* per client: the position and the locals of its request handler
    runs              \* history: pipeline runs the web front end has started

dispatch_vars == <<page, links_to_skip, links_to_process, tasks, semaphore,
                   special_links, failed_links, special_tasks, discovered, overtaken>>

assemble_vars == <<graph, doc_idx, prompt_graph, new_data, pos, entry, last_outcome,
                   delta, printed>>

\* the end of the run and the two queries of the results page
finish_vars == <<session, raised, person_nodes, person_id, associated, subgraph>>

\* the variables of the specifications of one function each
\* the enrichment pass of get_person_details
enrich_vars == <<hibp_results, sherlock_results, holehe_results, timeline>>

\* the web front end
web_vars == <<State, handlers, runs>>

unit_vars == <<data, parsed, env, scrape_result, page_links, enrich_vars, web_vars>>

vars == <<pc, scraped_results, dispatch_vars, assemble_vars, finish_vars, unit_vars>>

(***************************************************************************)
(* Bounds of the model.                                                    *)
(***************************************************************************)
\* links discovered by one run, over all of its search batches
MaxLinks == 3
\* documents handed to the assembler in one run
MaxDocs == 2
\* entries (nodes plus edges) of one oracle delta
MaxItems == 2

\* edges of the graph a finished run hands to its last steps
MaxEdges == 3

\* tokens of one oracle response text
MaxTextLen == 5

\* links in the escalation set when the escalation tier is followed alone
MaxEscalated == 2

\* pipeline runs the clients of the web front end start
MaxRuns == 3

(***************************************************************************)
(* Lists.                                                                  *)
(***************************************************************************)
\* occurrences of x in list s
Count(x, s) == Cardinality({i \in 1..Len(s) : s[i] = x})

(***************************************************************************)
(* Program constants.                                                      *)
(***************************************************************************)
total_pages == 3
SemaphoreInit == 2

\* Python's None
None == "None"

(***************************************************************************)
(* Text helpers.                                                           *)
(***************************************************************************)
\* Python's `sub in s` on strings: sub occurs in s as a contiguous run
IsSubstring(sub, s) ==
    \E i \in 0..(Len(s) - Len(sub)) : SubSeq(s, i + 1, i + Len(sub)) = sub

\* Python truthiness of a result-tuple member: None and "" are falsy
Truthy(x) == x # None /\ x # ""

(***************************************************************************)
(* Links.  A link is its netloc (what urlparse(link).netloc returns) and   *)
(* the rest of the URL.                                                    *)
(***************************************************************************)
SKIP_DOMAINS == << <<"linkedin", ".com">>, <<"facebook", ".com">> >>

LinkPlain    == [netloc |-> <<"example", ".com">>, path |-> <<"/a">>]
LinkLinkedIn == [netloc |-> <<"www.", "linkedin", ".com">>, path |-> <<"/in/", "x">>]
LinkFacebook == [netloc |-> <<"m.", "facebook", ".com">>, path |-> <<"/p">>]
LinkNearMiss == [netloc |-> <<"linkedin", ".org">>, path |-> <<"/in/", "x">>]

LinkPool == {LinkPlain, LinkLinkedIn, LinkFacebook, LinkNearMiss}

\* the URL as one string
LinkText(link) == <<"https://">> \o link.netloc \o link.path

\* all lists of pool links of length at most n
LinkLists(n) == UNION {[1..k -> LinkPool] : k \in 0..n}

(***************************************************************************)
(* categorize_links: partition a batch by the skip list.                   *)
(***************************************************************************)
\* any(skip_domain in domain for skip_domain in SKIP_DOMAINS)
IsSkipListed(link) ==
    \E i \in 1..Len(SKIP_DOMAINS) : IsSubstring(SKIP_DOMAINS[i], link.netloc)

RECURSIVE SkipPart(_)
\* links_to_skip: the skip-listed links of the batch, in batch order
SkipPart(links) ==
    IF links = <<>> THEN <<>>
    ELSE (IF IsSkipListed(Head(links)) THEN <<Head(links)>> ELSE <<>>)
         \o SkipPart(Tail(links))

RECURSIVE ProcessPart(_)
\* links_to_process: the other links of the batch, in batch order
ProcessPart(links) ==
    IF links = <<>> THEN <<>>
    ELSE (IF IsSkipListed(Head(links)) THEN <<>> ELSE <<Head(links)>>)
         \o ProcessPart(Tail(links))

\* categorize_links with the else branch taken for every link
categorize_links_all(links) == [skip |-> SkipPart(links), process |-> links]

categorize_links(links) == [skip |-> SkipPart(links), process |-> ProcessPart(links)]

(***************************************************************************)
(* scrape_google_page: the links of one search-results page.  `slow` is    *)
(* how scraper.slow_scrape ended, `fallback_ok` whether scrape_do_no_md    *)
(* returned, `found` the links on the page.  The handler is written        *)
(* `except RateLimited or CaptchaDetected`, which Python evaluates to      *)
(* `except RateLimited`.                                                   *)
(***************************************************************************)
SlowOutcomes == {"ok", "RateLimited", "CaptchaDetected", "Error"}

scrape_google_page(slow, fallback_ok, found) ==
    IF slow = "ok" THEN found
    ELSE IF slow = "RateLimited" /\ fallback_ok THEN found
    ELSE <<>>

(***************************************************************************)
(* process_link: one fast-tier task.  `outcome` is how quick_scrape and    *)
(* purify_html ended; the result is the tuple the task returns, with       *)
(* `raised` the exception that leaves the task (None when it returns).     *)
(***************************************************************************)
FastFailures == {"RateLimited", "CaptchaDetected", "Error"}
FastOutcomes == {"ok"} \cup FastFailures

\* process_link with `except Exception` narrowed so that the two signaled
\* conditions leave the task
process_link_narrow(link, outcome) ==
    IF outcome = "ok"
    THEN [link |-> link, content |-> "md", error |-> None, raised |-> None]
    ELSE IF outcome = "Error"
    THEN [link |-> link, content |-> None, error |-> outcome, raised |-> None]
    ELSE [link |-> link, content |-> None, error |-> None, raised |-> outcome]

\* `except Exception` at osaint.py:120 catches all three failure kinds
process_link(link, outcome) ==
    IF outcome = "ok"
    THEN [link |-> link, content |-> "md", error |-> None, raised |-> None]
    ELSE [link |-> link, content |-> None, error |-> outcome, raised |-> None]

\* a gate that also admits a task when no permit is left
CanAcquireAtZero(sem) == sem >= 0

\* `async with semaphore`: a task enters only while a permit is free
CanAcquire(sem) == sem > 0

\* a gate whose permit is not given back
release_leaked(sem) == sem

\* leaving `async with semaphore` (osaint.py:114), by return or by
\* exception: the permit is given back
release(sem) == sem + 1

\* gather that returns as soon as one task is done
GatherFirstCompleted(ts) == ts = <<>> \/ \E t \in 1..Len(ts) : ts[t].st = "done"

\* `await asyncio.gather(*tasks)` returns when every task is done
GatherDone(ts) == \A t \in 1..Len(ts) : ts[t].st = "done"

NewTask(link) ==
    [link |-> link, st |-> "pending", outcome |-> None, fetches |-> 0,
     result |-> [link |-> link, content |-> None, error |-> None, raised |-> None]]

MakeTasks(links) == [i \in 1..Len(links) |-> NewTask(links[i])]

InFlight == {t \in 1..Len(tasks) : tasks[t].st = "fetching"}

RECURSIVE FastFailed(_)
\* the links of the results whose error member is truthy, in result order
FastFailed(ts) ==
    IF ts = <<>> THEN <<>>
    ELSE (IF Truthy(Head(ts).result.error) THEN <<Head(ts).link>> ELSE <<>>)
         \o FastFailed(Tail(ts))

RECURSIVE FastSucceededReversed(_)
\* the pairs of the successful results, last result first
FastSucceededReversed(ts) ==
    IF ts = <<>> THEN <<>>
    ELSE FastSucceededReversed(Tail(ts))
         \o (IF Truthy(Head(ts).result.error) THEN <<>>
             ELSE << [link |-> Head(ts).link, content |-> Head(ts).result.content] >>)

RECURSIVE FastSucceeded(_)
\* the (link, markdown_content) pairs of the other results, in result order
FastSucceeded(ts) ==
    IF ts = <<>> THEN <<>>
    ELSE (IF Truthy(Head(ts).result.error) THEN <<>>
          ELSE << [link |-> Head(ts).link, content |-> Head(ts).result.content] >>)
         \o FastSucceeded(Tail(ts))

\* the loop over the results without the extend that follows it
EscalationInputsNoSkip(ts, skip) == FastFailed(ts)

\* osaint.py:312-317: what one batch appends to special_links
EscalationInputs(ts, skip) == FastFailed(ts) \o skip

(***************************************************************************)
(* process_special_link: one escalation task.                              *)
(***************************************************************************)
\* the HTTP statuses the scraping API answers with
Statuses == {200, 400, 500}

\* what requests.request does with one call to the scraping API: it raises
\* and there is no response, or there is a response with a status and a body
NoResponse == [raises |-> TRUE, status |-> 0, text |-> ""]

ApiAnswers ==
    {NoResponse}
    \cup {[raises |-> FALSE, status |-> c, text |-> b] : c \in Statuses, b \in {"md", ""}}

\* a retry after every status that is not 200
ShouldRetryNot200(status) == status # 200

\* scrapedo.py:33: `if response.status_code == 400`
ShouldRetry(status) == status = 400

\* scrapedo.py:19-39, with `first` the API's answer to the normal request
\* and `second` its answer to the super=true request, if that is made
scrape_do(first, second) ==
    IF first.raises
    THEN [raised |-> TRUE, text |-> None, requests |-> 1, statuses |-> <<>>]
    ELSE IF ShouldRetry(first.status)
         THEN IF second.raises
              THEN [raised |-> TRUE, text |-> None, requests |-> 2,
                    statuses |-> <<first.status>>]
              ELSE [raised |-> FALSE, text |-> second.text, requests |-> 2,
                    statuses |-> <<first.status, second.status>>]
         ELSE [raised |-> FALSE, text |-> first.text, requests |-> 1,
               statuses |-> <<first.status>>]

\* what the services do for one escalation task: `profile` is how the
\* profile branch (get_linkedin_profile, then purify_html) ends, `first`
\* and `second` are the scraping API's answers
EscalationOutcomes ==
    {[profile |-> x, first |-> a, second |-> b] :
        x \in {"ok", "empty", "raise"}, a \in ApiAnswers, b \in ApiAnswers}

\* the outcomes in which the service answers at once or not at all, and
\* both services do alike
SpecialOutcomes ==
    {[profile |-> "ok", first |-> [raises |-> FALSE, status |-> 200, text |-> "md"],
      second |-> NoResponse],
     [profile |-> "empty", first |-> [raises |-> FALSE, status |-> 200, text |-> ""],
      second |-> NoResponse],
     [profile |-> "raise", first |-> NoResponse, second |-> NoResponse]}

\* "linkedin.com/in/" in link
IsLinkedInProfile(link) ==
    IsSubstring(<<"linkedin", ".com", "/in/">>, LinkText(link))

\* osaint.py:225-242; `requests` and `statuses` record the calls made to
\* the scraping API and the statuses it answered with
process_special_link(link, outcome) ==
    IF IsLinkedInProfile(link)
    THEN [link |-> link,
          content |-> CASE outcome.profile = "ok" -> "md"
                        [] outcome.profile = "empty" -> ""
                        [] OTHER -> None,
          error |-> IF outcome.profile = "raise" THEN "Error" ELSE None,
          requests |-> 0, statuses |-> <<>>]
    ELSE LET r == scrape_do(outcome.first, outcome.second)
         IN [link |-> link,
             content |-> r.text,
             error |-> IF r.raised THEN "Error" ELSE None,
             requests |-> r.requests, statuses |-> r.statuses]

NewSpecialTask(link) ==
    [link |-> link, st |-> "pending", runs |-> 0,
     result |-> [link |-> link, content |-> None, error |-> None,
                 requests |-> 0, statuses |-> <<>>]]

\* a failed list that holds only the links whose handler raised
RECURSIVE SpecialFailedRaisedOnly(_)
SpecialFailedRaisedOnly(ts) ==
    IF ts = <<>> THEN <<>>
    ELSE (IF Head(ts).result.error # None THEN <<Head(ts).link>> ELSE <<>>)
         \o SpecialFailedRaisedOnly(Tail(ts))

RECURSIVE SpecialFailed(_)
SpecialFailed(ts) ==
    IF ts = <<>> THEN <<>>
    ELSE (IF Truthy(Head(ts).result.content) THEN <<>> ELSE <<Head(ts).link>>)
         \o SpecialFailed(Tail(ts))

RECURSIVE SpecialSucceeded(_)
SpecialSucceeded(ts) ==
    IF ts = <<>> THEN <<>>
    ELSE (IF Truthy(Head(ts).result.content)
          THEN << [link |-> Head(ts).link, content |-> Head(ts).result.content] >>
          ELSE <<>>)
         \o SpecialSucceeded(Tail(ts))

(***************************************************************************)
(* Dictionaries and the graph.  A dict is a function from its keys; every  *)
(* JSON string is a token sequence, and <<>> stands for "key not given"     *)
(* when an entry is built.                                                 *)
(***************************************************************************)
EmptyDict == [k \in {} |-> <<>>]

\* an update in which the old value wins where both have the key
UpdateKeepOld(d, new) == d @@ new

\* an update that appends the new "_comment" to the old one
UpdateAppend(d, new) ==
    [k \in DOMAIN d \cup DOMAIN new |->
        IF k \notin DOMAIN new THEN d[k]
        ELSE IF k \in DOMAIN d /\ k = "_comment" THEN d[k] \o new[k]
        ELSE new[k]]

\* dict.update(new): the keys of both, new's value where both have the key
Update(d, new) == new @@ d

Opt(key, val) == IF val = <<>> THEN EmptyDict ELSE key :> val

\* graph = nx.DiGraph()
EmptyGraph == [node |-> EmptyDict, edge |-> EmptyDict]

\* add_node that replaces the attribute dict of an old node
add_node_replace(g, n, attr) == [g EXCEPT !.node = (n :> attr) @@ g.node]

\* DiGraph.add_node(n, **attr): a new node gets attr, an old one is updated
add_node(g, n, attr) ==
    [g EXCEPT !.node =
        (n :> Update(IF n \in DOMAIN g.node THEN g.node[n] ELSE EmptyDict, attr)) @@ g.node]

\* an add_edge that leaves a missing endpoint missing
WithEndpointMissing(nodes, n) == nodes

\* the node dict after add_edge has made sure an endpoint exists
WithEndpoint(nodes, n) == IF n \in DOMAIN nodes THEN nodes ELSE (n :> EmptyDict) @@ nodes

\* an add_edge that starts the edge dict afresh
add_edge_alone(g, u, v, attr) ==
    [node |-> WithEndpoint(WithEndpoint(g.node, u), v),
     edge |-> <<u, v>> :> attr]

\* DiGraph.add_edge(u, v, **attr): at most one edge per ordered pair; the
\* pair's data dict is created when missing, then updated with attr
add_edge(g, u, v, attr) ==
    [node |-> WithEndpoint(WithEndpoint(g.node, u), v),
     edge |-> (<<u, v>> :>
                 Update(IF <<u, v>> \in DOMAIN g.edge THEN g.edge[<<u, v>>] ELSE EmptyDict,
                        attr)) @@ g.edge]

\* a serialization that leaves the edges out
node_link_data_nodes_only(g) == [node |-> g.node, edge |-> EmptyDict]

\* json_graph.node_link_data(current_graph, edges="edges"), the graph section
\* of the prompt: every node with its attributes, every edge with its
\* endpoints and attributes
node_link_data(g) ==
    [node |-> [n \in DOMAIN g.node |-> g.node[n]],
     edge |-> [e \in DOMAIN g.edge |-> g.edge[e]]]

(***************************************************************************)
(* The oracle's answers.                                                   *)
(***************************************************************************)
Ids == {<<"n1">>, <<"n2">>}
Labels == {<<"a">>}
Comments == {<<"c1">>, <<"c2">>}
Relationships == {<<"r1">>, <<"r2">>}

\* the ordered pairs the oracle's edges join
EdgePairs == {<< <<"n1">>, <<"n2">> >>, << <<"n2">>, <<"n1">> >>}

\* the node objects a delta can hold; the last one, without "id", is
\* malformed
NodeEntries ==
    {("id" :> i) @@ Opt("label", l) @@ Opt("_comment", c) :
        i \in Ids, l \in Labels \cup {<<>>}, c \in Comments \cup {<<>>}}
    \cup {"label" :> <<"a">>}

\* the edge objects a delta can hold; the last two, without "source" or
\* without "target", are malformed
EdgeEntries ==
    {("source" :> p[1]) @@ ("target" :> p[2]) @@ ("relationship" :> r) :
        p \in EdgePairs, r \in Relationships}
    \cup {("target" :> <<"n2">>) @@ ("relationship" :> <<"r1">>),
          ("source" :> <<"n1">>) @@ ("relationship" :> <<"r1">>)}

\* response["status"], and what json.loads makes of response["data"]:
\*   "error"    ask_reasoner caught an exception
\*   "garbage"  json.loads raises
\*   "delta"    an object whose "nodes" and "edges" are lists of the given
\*              lengths (a missing key reads as the empty list)
NoData == [kind |-> None, n_nodes |-> 0, n_edges |-> 0]

Responses ==
    {[kind |-> "error", n_nodes |-> 0, n_edges |-> 0],
     [kind |-> "garbage", n_nodes |-> 0, n_edges |-> 0]}
    \cup {[kind |-> "delta", n_nodes |-> n, n_edges |-> m] :
             n \in 0..MaxItems, m \in 0..MaxItems}

\* a loop that takes one entry more than the list holds
HasNextOffByOne(taken, len) == taken <= len

\* `for x in list`: there is a next entry while fewer than len were taken
HasNext(taken, len) == taken < len

\* osaint.py:336-349: what the loop body of run_pipeline prints about the
\* way a document ended: the except clause prints (348-349), the `if` on
\* the oracle's status has no else branch
diagnostics(outcome) ==
    IF outcome = "failed" THEN {"Failed to parse/update graph"} ELSE {}

(***************************************************************************)
(* The values of the variables a phase does not use.                       *)
(***************************************************************************)
NoDelta == [nodes |-> <<>>, edges |-> <<>>]

\* the session exists (osaint.py:297), nothing after the assembler has run
FinishIdle ==
    /\ session = [context |-> TRUE, browser |-> TRUE, playwright |-> TRUE]
    /\ raised = None
    /\ person_nodes = {}
    /\ person_id = <<>>
    /\ associated = <<>>
    /\ subgraph = <<>>

\* the clients of the web front end
Clients == {"c1", "c2"}

\* a client's handler state: `at` the page the client looks at or the line
\* its request has reached, `local` the run whose results the handler holds
\* in its locals, `shown` the run whose selection list the client's page
\* shows, `used` the runs whose person list and graph results() has read;
\* 0 stands for no run
NoHandler ==
    [at |-> "index", local |-> 0, shown |-> 0, used |-> [person_nodes |-> 0, graph |-> 0]]

\* app.py:16: STATE = {}, and no request has been made
WebIdle ==
    /\ State = [person_nodes |-> 0, graph |-> 0]
    /\ handlers = [c \in Clients |-> NoHandler]
    /\ runs = 0

\* no enrichment pass has started
EnrichIdle ==
    /\ hibp_results = EmptyDict
    /\ sherlock_results = EmptyDict
    /\ holehe_results = EmptyDict
    /\ timeline = <<>>

\* no oracle text is being parsed, no retrieval is being followed
UnitIdle ==
    /\ data = <<>>
    /\ parsed = <<>>
    /\ env = <<>>
    /\ scrape_result = <<>>
    /\ page_links = <<>>
    /\ EnrichIdle
    /\ WebIdle

(***************************************************************************)
(* The state after the locals of run_pipeline are set up                   *)
(* (osaint.py:296-303).                                                    *)
(***************************************************************************)
Init ==
    /\ pc = "search"
    /\ page = 0
    /\ links_to_skip = <<>>
    /\ links_to_process = <<>>
    /\ tasks = <<>>
    /\ semaphore = SemaphoreInit
    /\ special_links = <<>>
    /\ scraped_results = <<>>
    /\ failed_links = <<>>
    /\ special_tasks = <<>>
    /\ discovered = [l \in LinkPool |-> 0]
    /\ overtaken = FALSE
    /\ graph = EmptyGraph
    /\ doc_idx = 0
    /\ prompt_graph = EmptyGraph
    /\ new_data = NoData
    /\ pos = 0
    /\ entry = EmptyDict
    /\ last_outcome = None
    /\ delta = NoDelta
    /\ printed = {}
    /\ FinishIdle
    /\ UnitIdle

(***************************************************************************)
(* The dispatch phase.                                                     *)
(***************************************************************************)
\* links the run can still discover within MaxLinks
LinkBudget == MaxLinks - (Len(scraped_results) + Len(special_links))

\* osaint.py:305-310: fetch one search page, categorize, create the tasks
StartBatch ==
    /\ pc = "search"
    /\ page < total_pages
    /\ \E slow \in SlowOutcomes, fallback_ok \in BOOLEAN,
          found \in LinkLists(IF LinkBudget > 0 THEN LinkBudget ELSE 0) :
          LET links == scrape_google_page(slow, fallback_ok, found)
              cat   == categorize_links(links)
          IN /\ links_to_skip' = cat.skip
             /\ links_to_process' = cat.process
             /\ tasks' = MakeTasks(cat.process)
             /\ discovered' = [l \in LinkPool |-> discovered[l] + Count(l, links)]
    /\ overtaken' = FALSE
    /\ pc' = "fast"
    /\ UNCHANGED <<page, semaphore, special_links, scraped_results,
                   failed_links, special_tasks, assemble_vars,
                   finish_vars, unit_vars>>

\* osaint.py:114-117: a task passes the semaphore and calls quick_scrape
AcquireAndFetch(t) ==
    /\ pc = "fast"
    /\ tasks[t].st = "pending"
    /\ CanAcquire(semaphore)
    /\ semaphore' = semaphore - 1
    /\ tasks' = [tasks EXCEPT ![t].st = "fetching", ![t].fetches = @ + 1]
    /\ UNCHANGED <<pc, page, links_to_skip, links_to_process, special_links,
                   scraped_results, failed_links, special_tasks, discovered, overtaken,
                   assemble_vars,
                   finish_vars, unit_vars>>

\* osaint.py:117-122: quick_scrape ends, the task returns its tuple and
\* leaves the `async with` block
FinishFetch(t) ==
    /\ pc = "fast"
    /\ tasks[t].st = "fetching"
    /\ \E outcome \in FastOutcomes :
          tasks' = [tasks EXCEPT ![t].st = "done", ![t].outcome = outcome,
                                 ![t].result = process_link(tasks[t].link, outcome)]
    /\ semaphore' = release(semaphore)
    /\ overtaken' = (overtaken \/ \E u \in 1..(t - 1) : tasks[u].st # "done")
    /\ UNCHANGED <<pc, page, links_to_skip, links_to_process, special_links,
                   scraped_results, failed_links, special_tasks, discovered,
                   assemble_vars,
                   finish_vars, unit_vars>>

\* osaint.py:311-317: gather returns once every task is done; the results
\* are split, the skip-listed links join the escalation set, next page
CollectBatch ==
    /\ pc = "fast"
    /\ GatherDone(tasks)
    /\ IF \E t \in 1..Len(tasks) : tasks[t].result.raised # None
       THEN /\ pc' = "aborted"
            /\ UNCHANGED <<page, special_links, scraped_results>>
       ELSE /\ special_links' = special_links \o EscalationInputs(tasks, links_to_skip)
            /\ scraped_results' = scraped_results \o FastSucceeded(tasks)
            /\ page' = page + 1
            /\ pc' = IF page + 1 < total_pages THEN "search" ELSE "escalate"
    /\ UNCHANGED <<links_to_skip, links_to_process, tasks, semaphore,
                   failed_links, special_tasks, discovered, overtaken,
                   assemble_vars,
                   finish_vars, unit_vars>>

\* osaint.py:319-322: the escalation tasks are created, if there is any link
StartEscalation ==
    /\ pc = "escalate"
    /\ IF special_links = <<>>
       THEN /\ pc' = "assemble"
            /\ UNCHANGED special_tasks
       ELSE /\ pc' = "special"
            /\ special_tasks' =
                  [i \in 1..Len(special_links) |-> NewSpecialTask(special_links[i])]
    /\ UNCHANGED <<page, links_to_skip, links_to_process, tasks, semaphore,
                   special_links, scraped_results, failed_links, discovered, overtaken,
                   assemble_vars,
                   finish_vars, unit_vars>>

\* osaint.py:225-242: the handlers call requests synchronously, so a task
\* runs from start to finish without yielding, in creation order
SpecialTaskRuns(t, outcome) ==
    /\ pc = "special"
    /\ special_tasks[t].st = "pending"
    /\ \A u \in 1..(t - 1) : special_tasks[u].st = "done"
    /\ special_tasks' =
          [special_tasks EXCEPT ![t].st = "done", ![t].runs = @ + 1,
              ![t].result = process_special_link(special_tasks[t].link, outcome)]
    /\ UNCHANGED <<pc, page, links_to_skip, links_to_process, tasks, semaphore,
                   special_links, scraped_results, failed_links, discovered, overtaken,
                   assemble_vars,
                   finish_vars, unit_vars>>

\* an escalation task of the dispatch phase
RunSpecialTask(t) == \E outcome \in SpecialOutcomes : SpecialTaskRuns(t, outcome)

\* osaint.py:323-328: gather returns, results with content become documents
CollectSpecial ==
    /\ pc = "special"
    /\ GatherDone(special_tasks)
    /\ scraped_results' = scraped_results \o SpecialSucceeded(special_tasks)
    /\ failed_links' = failed_links \o SpecialFailed(special_tasks)
    /\ pc' = "assemble"
    /\ UNCHANGED <<page, links_to_skip, links_to_process, tasks, semaphore,
                   special_links, special_tasks, discovered, overtaken,
                   assemble_vars,
                   finish_vars, unit_vars>>

Next ==
    \/ StartBatch
    \/ \E t \in 1..Len(tasks) : AcquireAndFetch(t)
    \/ \E t \in 1..Len(tasks) : FinishFetch(t)
    \/ CollectBatch
    \/ StartEscalation
    \/ \E t \in 1..Len(special_tasks) : RunSpecialTask(t)
    \/ CollectSpecial

Spec == Init /\ [][Next]_vars

(***************************************************************************)
(* One batch of the fast tier on its own (osaint.py:307-317), under the    *)
(* scheduling of the event loop: a task that waits at a free gate is       *)
(* resumed, a retrieval that has started ends, and gather returns once     *)
(* every task is done.                                                     *)
(***************************************************************************)
\* the first search page has been fetched and categorized and the tasks of
\* the batch have been created (osaint.py:305-310)
InitBatch ==
    /\ pc = "fast"
    /\ page = 0
    /\ \E found \in LinkLists(MaxLinks) :
          /\ links_to_skip = categorize_links(found).skip
          /\ links_to_process = categorize_links(found).process
          /\ tasks = MakeTasks(categorize_links(found).process)
          /\ discovered = [l \in LinkPool |-> Count(l, found)]
    /\ overtaken = FALSE
    /\ semaphore = SemaphoreInit
    /\ special_links = <<>>
    /\ scraped_results = <<>>
    /\ failed_links = <<>>
    /\ special_tasks = <<>>
    /\ graph = EmptyGraph
    /\ doc_idx = 0
    /\ prompt_graph = EmptyGraph
    /\ new_data = NoData
    /\ pos = 0
    /\ entry = EmptyDict
    /\ last_outcome = None
    /\ delta = NoDelta
    /\ printed = {}
    /\ FinishIdle
    /\ UnitIdle

\* some task passes the gate
SomeAcquire == \E t \in 1..Len(tasks) : AcquireAndFetch(t)

\* some retrieval ends
SomeFinish == \E t \in 1..Len(tasks) : FinishFetch(t)

NextBatch ==
    \/ SomeAcquire
    \/ SomeFinish
    \/ CollectBatch

SpecBatch ==
    /\ InitBatch
    /\ [][NextBatch]_vars
    /\ WF_vars(SomeAcquire)
    /\ WF_vars(SomeFinish)
    /\ WF_vars(CollectBatch)


(***************************************************************************)
(* The escalation tier alone (osaint.py:319-328), with every answer the    *)
(* scraping API can give.                                                  *)
(***************************************************************************)
\* the three batches are over and have left an escalation set and no
\* document; the last batch found no link
InitEscalate ==
    /\ pc = "escalate"
    /\ page = total_pages
    /\ links_to_skip = <<>>
    /\ links_to_process = <<>>
    /\ tasks = <<>>
    /\ semaphore = SemaphoreInit
    /\ special_links \in LinkLists(MaxEscalated)
    /\ scraped_results = <<>>
    /\ failed_links = <<>>
    /\ special_tasks = <<>>
    /\ discovered = [l \in LinkPool |-> Count(l, special_links)]
    /\ overtaken = FALSE
    /\ graph = EmptyGraph
    /\ doc_idx = 0
    /\ prompt_graph = EmptyGraph
    /\ new_data = NoData
    /\ pos = 0
    /\ entry = EmptyDict
    /\ last_outcome = None
    /\ delta = NoDelta
    /\ printed = {}
    /\ FinishIdle
    /\ UnitIdle

\* an escalation task, whatever the services answer
EscalateTask(t) == \E outcome \in EscalationOutcomes : SpecialTaskRuns(t, outcome)

NextEscalate ==
    \/ StartEscalation
    \/ \E t \in 1..Len(special_tasks) : EscalateTask(t)
    \/ CollectSpecial

SpecEscalate == InitEscalate /\ [][NextEscalate]_vars


(***************************************************************************)
(* The escalation tier with the sending of a task's request and the        *)
(* arrival of its answer as two steps (osaint.py:319-328, 225-242).  The   *)
(* handlers are coroutines, but they call requests.request and             *)
(* requests.get (scrapedo.py:31, 38; proxycurl.py:18), which return only   *)
(* when the answer is there: the thread of the event loop waits inside     *)
(* the call and no other task can be resumed meanwhile.                    *)
(***************************************************************************)
\* a task stands inside a requests call
LoopBlocked(ts) == \E u \in 1..Len(ts) : ts[u].st = "in_flight"

\* the event loop starts task t, the next of the ready queue, and the task
\* sends its request
IssueRequest(t) ==
    /\ pc = "special"
    /\ special_tasks[t].st = "pending"
    /\ \A u \in 1..(t - 1) : special_tasks[u].st # "pending"
    /\ ~LoopBlocked(special_tasks)
    /\ special_tasks' = [special_tasks EXCEPT ![t].st = "in_flight", ![t].runs = @ + 1]
    /\ UNCHANGED <<pc, page, links_to_skip, links_to_process, tasks, semaphore,
                   special_links, scraped_results, failed_links, discovered, overtaken,
                   assemble_vars,
                   finish_vars, unit_vars>>

\* the answer arrives, or the call raises, and the task runs to its return
ReceiveAnswer(t) ==
    /\ pc = "special"
    /\ special_tasks[t].st = "in_flight"
    /\ \E outcome \in SpecialOutcomes :
          special_tasks' =
              [special_tasks EXCEPT ![t].st = "done",
                  ![t].result = process_special_link(special_tasks[t].link, outcome)]
    /\ UNCHANGED <<pc, page, links_to_skip, links_to_process, tasks, semaphore,
                   special_links, scraped_results, failed_links, discovered, overtaken,
                   assemble_vars,
                   finish_vars, unit_vars>>

NextFanOut ==
    \/ StartEscalation
    \/ \E t \in 1..Len(special_tasks) : IssueRequest(t)
    \/ \E t \in 1..Len(special_tasks) : ReceiveAnswer(t)
    \/ CollectSpecial

SpecFanOut == InitEscalate /\ [][NextFanOut]_vars


(***************************************************************************)
(* The assembler loop (osaint.py:330-349).  The oracle's delta is read one *)
(* entry at a time: the lengths of its lists are fixed when the response   *)
(* arrives, each entry is drawn when the loop reaches it.                  *)
(***************************************************************************)
Document == [link |-> LinkPlain, content |-> "md"]

\* the dispatch phase has ended with k documents, all fetched by the fast
\* tier of the first batch
InitAssemble ==
    /\ pc = "assemble"
    /\ page = total_pages
    /\ links_to_skip = <<>>
    /\ links_to_process = <<>>
    /\ tasks = <<>>
    /\ semaphore = SemaphoreInit
    /\ special_links = <<>>
    /\ \E k \in 0..MaxDocs : scraped_results = [i \in 1..k |-> Document]
    /\ failed_links = <<>>
    /\ special_tasks = <<>>
    /\ discovered = [l \in LinkPool |-> 0]
    /\ overtaken = FALSE
    /\ graph = EmptyGraph
    /\ doc_idx = 0
    /\ prompt_graph = EmptyGraph
    /\ new_data = NoData
    /\ pos = 0
    /\ entry = EmptyDict
    /\ last_outcome = None
    /\ delta = NoDelta
    /\ printed = {}
    /\ FinishIdle
    /\ UnitIdle

\* osaint.py:330-343: take the next document, build the prompt from the
\* current graph, ask the oracle and parse its answer
AskReasoner ==
    /\ pc = "assemble"
    /\ doc_idx < Len(scraped_results)
    /\ doc_idx' = doc_idx + 1
    /\ prompt_graph' = node_link_data(graph)
    /\ pos' = 0
    /\ entry' = EmptyDict
    /\ \E r \in Responses :
          /\ r.n_nodes + r.n_edges <= MaxItems
          /\ new_data' = r
          /\ pc' = IF r.kind = "delta" THEN "nodes" ELSE "assemble"
          /\ last_outcome' = CASE r.kind = "delta"   -> None
                               [] r.kind = "garbage" -> "failed"
                               [] r.kind = "error"   -> "error_status"
    /\ printed' = diagnostics(last_outcome')
    /\ UNCHANGED <<graph, delta, scraped_results, dispatch_vars,
                   finish_vars, unit_vars>>

\* osaint.py:344-345 and 348-349: one turn of the node loop; a node
\* without "id" raises KeyError, which ends the try block
MergeNode ==
    /\ pc = "nodes"
    /\ HasNext(pos, new_data.n_nodes)
    /\ \E node \in NodeEntries :
          /\ entry' = node
          /\ IF "id" \in DOMAIN node
             THEN /\ graph' = add_node(graph, node["id"], node)
                  /\ pos' = pos + 1
                  /\ UNCHANGED <<pc, last_outcome>>
             ELSE /\ pc' = "assemble"
                  /\ last_outcome' = "failed"
                  /\ UNCHANGED <<graph, pos>>
    /\ printed' = diagnostics(last_outcome')
    /\ UNCHANGED <<doc_idx, prompt_graph, new_data, delta, scraped_results, dispatch_vars,
                   finish_vars, unit_vars>>

\* osaint.py:346: the node loop is over, the edge loop starts
NodesDone ==
    /\ pc = "nodes"
    /\ ~HasNext(pos, new_data.n_nodes)
    /\ pc' = "edges"
    /\ pos' = 0
    /\ UNCHANGED <<graph, doc_idx, prompt_graph, new_data, entry, last_outcome,
                   delta, printed, scraped_results, dispatch_vars,
                   finish_vars, unit_vars>>

\* osaint.py:346-349: one turn of the edge loop; an edge without "source"
\* or "target" raises KeyError, which ends the try block
MergeEdge ==
    /\ pc = "edges"
    /\ HasNext(pos, new_data.n_edges)
    /\ \E edge \in EdgeEntries :
          /\ entry' = edge
          /\ IF "source" \in DOMAIN edge /\ "target" \in DOMAIN edge
             THEN /\ graph' = add_edge(graph, edge["source"], edge["target"], edge)
                  /\ pos' = pos + 1
                  /\ UNCHANGED <<pc, last_outcome>>
             ELSE /\ pc' = "assemble"
                  /\ last_outcome' = "failed"
                  /\ UNCHANGED <<graph, pos>>
    /\ printed' = diagnostics(last_outcome')
    /\ UNCHANGED <<doc_idx, prompt_graph, new_data, delta, scraped_results, dispatch_vars,
                   finish_vars, unit_vars>>

\* the edge loop is over: the try block ends without an exception
EdgesDone ==
    /\ pc = "edges"
    /\ ~HasNext(pos, new_data.n_edges)
    /\ pc' = "assemble"
    /\ last_outcome' = "merged"
    /\ printed' = diagnostics(last_outcome')
    /\ UNCHANGED <<graph, doc_idx, prompt_graph, new_data, pos, entry,
                   delta, scraped_results, dispatch_vars,
                   finish_vars, unit_vars>>

NextAssemble ==
    \/ AskReasoner
    \/ MergeNode
    \/ NodesDone
    \/ MergeEdge
    \/ EdgesDone

SpecAssemble == InitAssemble /\ [][NextAssemble]_vars

(***************************************************************************)
(* The assembler with the oracle's delta kept whole, so that the same      *)
(* bytes can arrive twice.  One action is one turn of the document loop    *)
(* (osaint.py:330-349): between two calls of ask_reasoner nothing else     *)
(* runs.                                                                   *)
(***************************************************************************)
\* osaint.py:344-345 over a whole list: the loop stops at the first node
\* without "id" (KeyError)
RECURSIVE merge_nodes(_, _, _, _)
merge_nodes(g, nodes, taken, last) ==
    IF nodes = <<>>
    THEN [graph |-> g, raised |-> FALSE, pos |-> taken, entry |-> last]
    ELSE IF "id" \in DOMAIN Head(nodes)
         THEN merge_nodes(add_node(g, Head(nodes)["id"], Head(nodes)),
                          Tail(nodes), taken + 1, Head(nodes))
         ELSE [graph |-> g, raised |-> TRUE, pos |-> taken, entry |-> Head(nodes)]

\* osaint.py:346-347 over a whole list: the loop stops at the first edge
\* without "source" or "target" (KeyError)
RECURSIVE merge_edges(_, _, _, _)
merge_edges(g, edges, taken, last) ==
    IF edges = <<>>
    THEN [graph |-> g, raised |-> FALSE, pos |-> taken, entry |-> last]
    ELSE IF "source" \in DOMAIN Head(edges) /\ "target" \in DOMAIN Head(edges)
         THEN merge_edges(add_edge(g, Head(edges)["source"], Head(edges)["target"],
                                   Head(edges)),
                          Tail(edges), taken + 1, Head(edges))
         ELSE [graph |-> g, raised |-> TRUE, pos |-> taken, entry |-> Head(edges)]

\* osaint.py:344-349: the node loop, then the edge loop unless the node
\* loop raised
apply_delta(g, d) ==
    LET n == merge_nodes(g, d.nodes, 0, EmptyDict)
    IN IF n.raised THEN n ELSE merge_edges(n.graph, d.edges, 0, n.entry)

\* the deltas of at most MaxItems entries
Deltas ==
    UNION {{[nodes |-> ns, edges |-> es] :
               ns \in [1..c[1] -> NodeEntries], es \in [1..c[2] -> EdgeEntries]} :
           c \in {x \in (0..MaxItems) \X (0..MaxItems) : x[1] + x[2] <= MaxItems}}

\* what the first document's delta can be
SeedDeltas ==
    {NoDelta,
     [nodes |-> << ("id" :> <<"n1">>) @@ ("label" :> <<"a">>) @@ ("_comment" :> <<"c1">>) >>,
      edges |-> << ("source" :> <<"n1">>) @@ ("target" :> <<"n2">>)
                   @@ ("relationship" :> <<"r1">>) >>]}

\* a run whose dispatch phase has ended with three documents
InitReplay ==
    /\ pc = "assemble"
    /\ page = total_pages
    /\ links_to_skip = <<>>
    /\ links_to_process = <<>>
    /\ tasks = <<>>
    /\ semaphore = SemaphoreInit
    /\ special_links = <<>>
    /\ scraped_results = <<Document, Document, Document>>
    /\ failed_links = <<>>
    /\ special_tasks = <<>>
    /\ discovered = [l \in LinkPool |-> IF l = LinkPlain THEN Len(scraped_results) ELSE 0]
    /\ overtaken = FALSE
    /\ graph = EmptyGraph
    /\ doc_idx = 0
    /\ prompt_graph = EmptyGraph
    /\ new_data = NoData
    /\ pos = 0
    /\ entry = EmptyDict
    /\ last_outcome = None
    /\ delta = NoDelta
    /\ printed = {}
    /\ FinishIdle
    /\ UnitIdle

\* osaint.py:330-349: one document; the oracle answers with delta d
MergeDelta(d) ==
    /\ pc = "assemble"
    /\ doc_idx < Len(scraped_results)
    /\ doc_idx' = doc_idx + 1
    /\ prompt_graph' = node_link_data(graph)
    /\ delta' = d
    /\ new_data' = [kind |-> "delta", n_nodes |-> Len(d.nodes), n_edges |-> Len(d.edges)]
    /\ LET r == apply_delta(graph, d)
       IN /\ graph' = r.graph
          /\ pos' = r.pos
          /\ entry' = r.entry
          /\ last_outcome' = IF r.raised THEN "failed" ELSE "merged"
    /\ printed' = diagnostics(last_outcome')
    /\ UNCHANGED <<pc, scraped_results, dispatch_vars, finish_vars, unit_vars>>

\* the first document
FirstDelta == doc_idx = 0 /\ \E d \in SeedDeltas : MergeDelta(d)

\* a later document for which the oracle writes a new answer
FreshDelta == doc_idx = 1 /\ \E d \in Deltas : MergeDelta(d)

\* a later document for which the oracle repeats its latest answer
ReplayDelta == doc_idx > 1 /\ MergeDelta(delta)

NextReplay ==
    \/ FirstDelta
    \/ FreshDelta
    \/ ReplayDelta

SpecReplay == InitReplay /\ [][NextReplay]_vars


(***************************************************************************)
(* The end of the run (osaint.py:351-370) and the two graph queries of the *)
(* results page (osaint.py:286-290, 373-387), over the graphs the          *)
(* assembler can leave behind.                                             *)
(***************************************************************************)
\* Python's None where a token sequence is expected
NoneText == <<None>>

\* d.get(key)
Get(d, key) == IF key \in DOMAIN d THEN d[key] ELSE NoneText

\* the name the run searches for
target == <<"t">>

QueryIds == {<<"n1">>, <<"n2">>, <<"n3">>}

\* the attributes, next to "id", of the nodes of a finished graph
NodeKinds ==
    {("type" :> <<"person">>) @@ ("label" :> <<"t">>),
     "type" :> <<"person">>,
     ("type" :> <<"social_media">>) @@ ("label" :> <<"s">>),
     ("type" :> <<"email">>) @@ ("label" :> <<"a">>),
     "type" :> <<"email">>,
     ("type" :> <<"username">>) @@ ("label" :> <<"a">>),
     ("type" :> <<"phone">>) @@ ("label" :> <<"p">>)}

\* the edge sets of at most MaxEdges edges, without self-loops
EdgeSets ==
    {E \in SUBSET {p \in QueryIds \X QueryIds : p[1] # p[2]} : Cardinality(E) <= MaxEdges}

\* the graph with node data k and edge set E: a node either came with a
\* node entry, and carries its id, or was made by add_edge, and carries
\* nothing
FinishedGraph(k, E) ==
    [node |-> [i \in QueryIds |-> IF k[i] = EmptyDict THEN EmptyDict
                                   ELSE ("id" :> i) @@ k[i]],
     edge |-> [p \in E |-> ("source" :> p[1]) @@ ("target" :> p[2])
                           @@ ("relationship" :> <<"r1">>)]]

\* the graphs of a finished run; a node made by add_edge is an endpoint
FinishedGraphs ==
    {FinishedGraph(x[1], x[2]) :
        x \in {y \in [QueryIds -> NodeKinds \cup {EmptyDict}] \X EdgeSets :
                  \A i \in QueryIds :
                      y[1][i] = EmptyDict => \E p \in y[2] : i \in {p[1], p[2]}}}

\* graph.neighbors(n): the successors of n
neighbors(g, n) == {p[2] : p \in {q \in DOMAIN g.edge : q[1] = n}}

\* breadth-first search from the nodes seen so far
RECURSIVE reach(_, _)
reach(g, seen) ==
    LET more == seen \cup UNION {neighbors(g, m) : m \in seen}
    IN IF more = seen THEN seen ELSE reach(g, more)

\* a search that stops at the direct successors
descendants_one_hop(g, n) == neighbors(g, n) \ {n}

\* nx.descendants(graph, n): what a search from n reaches, n left out
descendants(g, n) == reach(g, {n}) \ {n}

\* graph.subgraph(nodes): the nodes with their data, the edges among them
induced(g, nodes) ==
    [node |-> [n \in nodes |-> g.node[n]],
     edge |-> [p \in {q \in DOMAIN g.edge : q[1] \in nodes /\ q[2] \in nodes} |->
                 g.edge[p]]]

\* osaint.py:286-290
get_person_subgraph(g, n) == induced(g, descendants(g, n) \cup {n})

\* a second hop that collects every identifier type
SecondHopAll == {<<"email">>, <<"username">>, <<"phone">>}

\* osaint.py:383: `if sm_type in ("email", "username")`
SecondHopTypes == {<<"email">>, <<"username">>}

\* osaint.py:374: the keys of `associated`
AssociatedTypes == {<<"email">>, <<"username">>, <<"phone">>}

\* osaint.py:374-385: the sets the two nested loops fill
associated_sets(g, n) ==
    [t \in AssociatedTypes |->
        {Get(g.node[m], "label") :
            m \in {x \in neighbors(g, n) : Get(g.node[x], "type") = t}}
        \cup
        UNION {{Get(g.node[k], "label") :
                   k \in {x \in neighbors(g, m) :
                             /\ Get(g.node[x], "type") = t
                             /\ t \in SecondHopTypes}} :
               m \in {x \in neighbors(g, n) :
                         Get(g.node[x], "type") = <<"social_media">>}}]

\* list(s): the members of s in some order
RECURSIVE list(_)
list(s) == IF s = {} THEN <<>> ELSE LET x == CHOOSE y \in s : TRUE
                                   IN <<x>> \o list(s \ {x})

\* osaint.py:373-387: the first result of get_person_details
get_person_details(g, n) == [t \in AssociatedTypes |-> list(associated_sets(g, n)[t])]

\* osaint.py:363-367: the node ids of the list comprehension; `target in
\* None` raises TypeError
SelectionRaises(g) ==
    \E n \in DOMAIN g.node :
        Get(g.node[n], "type") = <<"person">> /\ Get(g.node[n], "label") = NoneText

select_person_nodes(g) ==
    {n \in DOMAIN g.node :
        /\ Get(g.node[n], "type") = <<"person">>
        /\ IsSubstring(target, Get(g.node[n], "label"))}

\* the assembler loop has ended and left one of the finished graphs
InitFinish ==
    /\ pc = "save"
    /\ page = total_pages
    /\ links_to_skip = <<>>
    /\ links_to_process = <<>>
    /\ tasks = <<>>
    /\ semaphore = SemaphoreInit
    /\ special_links = <<>>
    /\ scraped_results = <<Document>>
    /\ failed_links = <<>>
    /\ special_tasks = <<>>
    /\ discovered = [l \in LinkPool |-> IF l = LinkPlain THEN Len(scraped_results) ELSE 0]
    /\ overtaken = FALSE
    /\ graph \in FinishedGraphs
    /\ doc_idx = Len(scraped_results)
    /\ prompt_graph = EmptyGraph
    /\ new_data = NoData
    /\ pos = 0
    /\ entry = EmptyDict
    /\ last_outcome = "merged"
    /\ delta = NoDelta
    /\ printed = {}
    /\ FinishIdle
    /\ UnitIdle

\* osaint.py:352-355: the snapshot is written; the write can raise
SaveGraph ==
    /\ pc = "save"
    /\ \E ok \in BOOLEAN :
          /\ pc' = IF ok THEN "plot" ELSE "aborted"
          /\ raised' = IF ok THEN None ELSE "save"
    /\ UNCHANGED <<session, person_nodes, person_id, associated, subgraph,
                   scraped_results, dispatch_vars, assemble_vars, unit_vars>>

\* osaint.py:358: the visualization is rendered; imports, layout and the
\* write can raise
PlotGraph ==
    /\ pc = "plot"
    /\ \E ok \in BOOLEAN :
          /\ pc' = IF ok THEN "close" ELSE "aborted"
          /\ raised' = IF ok THEN None ELSE "plot"
    /\ UNCHANGED <<session, person_nodes, person_id, associated, subgraph,
                   scraped_results, dispatch_vars, assemble_vars, unit_vars>>

\* osaint.py:360 and scraper.py:175-181: the three awaits of close(), of
\* which the first `done` return
CloseScraper ==
    /\ pc = "close"
    /\ \E done \in 0..3 :
          /\ session' = [context |-> done < 1, browser |-> done < 2,
                         playwright |-> done < 3]
          /\ pc' = IF done = 3 THEN "select" ELSE "aborted"
          /\ raised' = IF done = 3 THEN None ELSE "close"
    /\ UNCHANGED <<person_nodes, person_id, associated, subgraph,
                   scraped_results, dispatch_vars, assemble_vars, unit_vars>>

\* osaint.py:363-370: the person list is built and returned with the graph
SelectPersons ==
    /\ pc = "select"
    /\ IF SelectionRaises(graph)
       THEN /\ pc' = "aborted"
            /\ raised' = "TypeError"
            /\ UNCHANGED person_nodes
       ELSE /\ pc' = "returned"
            /\ person_nodes' = select_person_nodes(graph)
            /\ UNCHANGED raised
    /\ UNCHANGED <<session, person_id, associated, subgraph,
                   scraped_results, dispatch_vars, assemble_vars, unit_vars>>

\* app.py:33-41 and osaint.py:523-553: one of the listed persons is chosen
\* and the graph is queried for it
QueryPerson ==
    /\ pc = "returned"
    /\ \E n \in person_nodes :
          /\ person_id' = n
          /\ associated' = get_person_details(graph, n)
          /\ subgraph' = get_person_subgraph(graph, n)
    /\ pc' = "results"
    /\ UNCHANGED <<session, raised, person_nodes,
                   scraped_results, dispatch_vars, assemble_vars, unit_vars>>

NextFinish ==
    \/ SaveGraph
    \/ PlotGraph
    \/ CloseScraper
    \/ SelectPersons
    \/ QueryPerson

SpecFinish == InitFinish /\ [][NextFinish]_vars


(***************************************************************************)
(* The parsing step of the assembler (osaint.py:338-343) over the oracle's *)
(* text.  A text is a sequence of tokens: "{" and "}" are the brace        *)
(* characters, "m" is one member of an object whose value is an empty      *)
(* list, "x" is any other run of characters.                               *)
(***************************************************************************)
Tokens == {"{", "}", "m", "x"}

\* the texts of at most MaxTextLen tokens
Texts == UNION {[1..n -> Tokens] : n \in 0..MaxTextLen}

\* the positions of token c in text
Positions(text, c) == {i \in 1..Len(text) : text[i] = c}

Min(S) == CHOOSE i \in S : \A j \in S : i <= j

Max(S) == CHOOSE i \in S : \A j \in S : i >= j

\* osaint.py:339: re.search(r"\{[\s\S]*\}", data).  The leftmost match
\* starts at the first "{" that has a "}" after it, and the greedy star
\* carries it to the last "}" of the text; <<>> when there is no match
search_braces(text) ==
    LET opens  == Positions(text, "{")
        closes == Positions(text, "}")
    IN IF opens # {} /\ closes # {} /\ Min(opens) < Max(closes)
       THEN SubSeq(text, Min(opens), Max(closes))
       ELSE <<>>

\* json.loads accepts the text: one object, i.e. a brace pair around
\* members only
IsObject(text) ==
    /\ Len(text) >= 2
    /\ text[1] = "{"
    /\ text[Len(text)] = "}"
    /\ \A i \in 2..(Len(text) - 1) : text[i] = "m"

\* json.loads(text) for an object: the dict of its members
loads(text) == SubSeq(text, 2, Len(text) - 1)

\* osaint.py:339-343: the match if there is one, else the whole text, goes
\* to json.loads; `raised` when json.loads raises
parse_response(text) ==
    LET match == search_braces(text)
        arg   == IF match # <<>> THEN match ELSE text
    IN IF IsObject(arg)
       THEN [raised |-> FALSE, new_data |-> loads(arg)]
       ELSE [raised |-> TRUE, new_data |-> <<>>]

\* the assembler holds the oracle's text for its only document
InitParse ==
    /\ pc = "parse"
    /\ page = total_pages
    /\ links_to_skip = <<>>
    /\ links_to_process = <<>>
    /\ tasks = <<>>
    /\ semaphore = SemaphoreInit
    /\ special_links = <<>>
    /\ scraped_results = <<Document>>
    /\ failed_links = <<>>
    /\ special_tasks = <<>>
    /\ discovered = [l \in LinkPool |-> IF l = LinkPlain THEN Len(scraped_results) ELSE 0]
    /\ overtaken = FALSE
    /\ graph = EmptyGraph
    /\ doc_idx = Len(scraped_results)
    /\ prompt_graph = EmptyGraph
    /\ new_data = NoData
    /\ pos = 0
    /\ entry = EmptyDict
    /\ last_outcome = None
    /\ delta = NoDelta
    /\ printed = {}
    /\ FinishIdle
    /\ data \in Texts
    /\ parsed = <<>>
    /\ env = <<>>
    /\ scrape_result = <<>>
    /\ page_links = <<>>
    /\ EnrichIdle
    /\ WebIdle

\* osaint.py:338-349: the text is parsed; the members of the object are
\* empty lists, so both loops end at once and the graph stays as it is
ParseResponse ==
    /\ pc = "parse"
    /\ parsed' = parse_response(data)
    /\ last_outcome' = IF parse_response(data).raised THEN "failed" ELSE "merged"
    /\ new_data' = [kind |-> IF parse_response(data).raised THEN "garbage" ELSE "delta",
                    n_nodes |-> 0, n_edges |-> 0]
    /\ pc' = "assemble"
    /\ printed' = diagnostics(last_outcome')
    /\ UNCHANGED <<graph, doc_idx, prompt_graph, pos, entry, delta, data, env,
                   scrape_result, page_links, enrich_vars, web_vars, scraped_results,
                   dispatch_vars,
                   finish_vars>>

NextParse == ParseResponse

SpecParse == InitParse /\ [][NextParse]_vars


(***************************************************************************)
(* One retrieval through the browser session, followed on its own: a       *)
(* fast-tier task's call of Scraper.quick_scrape (scraper.py:86-127), or a *)
(* search page's call of Scraper.slow_scrape (129-173) inside              *)
(* scrape_google_page (osaint.py:48-91).  `env` is what the browser and    *)
(* the scraping API do during the retrieval.                               *)
(***************************************************************************)
\* scraper.py:105-112: the three texts looked for on the page
Markers == {"I'm not a robot", "Access Denied", "Verify you are human"}

\* new_page    context.new_page() returns a page (FALSE: it raises)
\* goto        page.goto raises, returns None, or returns a response with
\*             the given status
\* is_visible  the first is_visible() call returns (FALSE: it raises)
\* visible     the markers that are visible on the page
\* content     page.content() returns (FALSE: it raises)
Envs ==
    [new_page : BOOLEAN,
     goto : {"raise", "None", "200", "429", "500"},
     is_visible : BOOLEAN,
     visible : SUBSET Markers,
     content : BOOLEAN]

\* a method whose finally block is left out
finally_skipped(closes) == closes

\* scraper.py:125-127 and 171-173: `finally: await page.close()`, after
\* `closes` earlier calls of page.close()
finally_close(closes) == closes + 1

\* scraper.py:95-127.  outcome: "ok" the content is returned; "RateLimited"
\* and "CaptchaDetected" are raised and re-raised (118-120); "Error" is the
\* Exception made at 124; "Unwrapped" is an exception of the browser
\* library that leaves the method as it is.  closes: calls of page.close()
quick_scrape(e) ==
    IF ~e.new_page
    THEN [outcome |-> "Unwrapped", opened |-> FALSE, closes |-> 0]
    ELSE IF e.goto \in {"raise", "None"}
    THEN [outcome |-> "Error", opened |-> TRUE, closes |-> finally_close(0)]
    ELSE IF e.goto = "429"
    THEN [outcome |-> "RateLimited", opened |-> TRUE, closes |-> finally_close(1)]
    ELSE IF ~e.is_visible
    THEN [outcome |-> "Error", opened |-> TRUE, closes |-> finally_close(0)]
    ELSE IF e.visible # {}
    THEN [outcome |-> "CaptchaDetected", opened |-> TRUE, closes |-> finally_close(0)]
    ELSE IF ~e.content
    THEN [outcome |-> "Error", opened |-> TRUE, closes |-> finally_close(0)]
    ELSE [outcome |-> "ok", opened |-> TRUE, closes |-> finally_close(0)]

\* the links a search-results page can hold
FoundLists == {<<>>, <<LinkPlain>>}

\* what slow_scrape and the fallback of scrape_google_page meet, next to the
\* fields of Envs:
\* wait_for_selector  page.wait_for_selector("body") returns (FALSE: raises)
\* wheel              the page.mouse.wheel calls return (FALSE: one raises)
\* scrape_do_no_md    the scraping API's raw-markup call returns markup
\*                    (FALSE: it raises)
\* found              the result links in the markup, of the page or of the
\*                    scraping API
SlowEnvs ==
    [new_page : BOOLEAN,
     goto : {"raise", "None", "200", "429", "500"},
     wait_for_selector : BOOLEAN,
     is_visible : BOOLEAN,
     visible : SUBSET Markers,
     wheel : BOOLEAN,
     content : BOOLEAN,
     scrape_do_no_md : BOOLEAN,
     found : FoundLists]

\* scraper.py:138-173, with the outcomes of quick_scrape.  The body is
\* awaited before the status is read (140-144), only the first marker is
\* looked for (148), and the page is closed in the finally block alone
slow_scrape(e) ==
    IF ~e.new_page
    THEN [outcome |-> "Unwrapped", opened |-> FALSE, closes |-> 0]
    ELSE IF e.goto = "raise" \/ ~e.wait_for_selector \/ e.goto = "None"
    THEN [outcome |-> "Error", opened |-> TRUE, closes |-> finally_close(0)]
    ELSE IF e.goto = "429"
    THEN [outcome |-> "RateLimited", opened |-> TRUE, closes |-> finally_close(0)]
    ELSE IF ~e.is_visible
    THEN [outcome |-> "Error", opened |-> TRUE, closes |-> finally_close(0)]
    ELSE IF "I'm not a robot" \in e.visible
    THEN [outcome |-> "CaptchaDetected", opened |-> TRUE, closes |-> finally_close(0)]
    ELSE IF ~e.wheel \/ ~e.content
    THEN [outcome |-> "Error", opened |-> TRUE, closes |-> finally_close(0)]
    ELSE [outcome |-> "ok", opened |-> TRUE, closes |-> finally_close(0)]

\* a fast-tier task is about to call quick_scrape
InitQuickScrape ==
    /\ pc = "quick_scrape"
    /\ page = 0
    /\ links_to_skip = <<>>
    /\ links_to_process = <<LinkPlain>>
    /\ tasks = <<[NewTask(LinkPlain) EXCEPT !.st = "fetching", !.fetches = 1]>>
    /\ semaphore = SemaphoreInit - 1
    /\ special_links = <<>>
    /\ scraped_results = <<>>
    /\ failed_links = <<>>
    /\ special_tasks = <<>>
    /\ discovered = [l \in LinkPool |-> IF l = LinkPlain THEN 1 ELSE 0]
    /\ overtaken = FALSE
    /\ graph = EmptyGraph
    /\ doc_idx = 0
    /\ prompt_graph = EmptyGraph
    /\ new_data = NoData
    /\ pos = 0
    /\ entry = EmptyDict
    /\ last_outcome = None
    /\ delta = NoDelta
    /\ printed = {}
    /\ FinishIdle
    /\ data = <<>>
    /\ parsed = <<>>
    /\ env \in Envs
    /\ scrape_result = <<>>
    /\ page_links = <<>>
    /\ EnrichIdle
    /\ WebIdle

\* the first search batch is about to call slow_scrape (osaint.py:306, 62)
InitSlowScrape ==
    /\ pc = "slow_scrape"
    /\ page = 0
    /\ links_to_skip = <<>>
    /\ links_to_process = <<>>
    /\ tasks = <<>>
    /\ semaphore = SemaphoreInit
    /\ special_links = <<>>
    /\ scraped_results = <<>>
    /\ failed_links = <<>>
    /\ special_tasks = <<>>
    /\ discovered = [l \in LinkPool |-> 0]
    /\ overtaken = FALSE
    /\ graph = EmptyGraph
    /\ doc_idx = 0
    /\ prompt_graph = EmptyGraph
    /\ new_data = NoData
    /\ pos = 0
    /\ entry = EmptyDict
    /\ last_outcome = None
    /\ delta = NoDelta
    /\ printed = {}
    /\ FinishIdle
    /\ data = <<>>
    /\ parsed = <<>>
    /\ env \in SlowEnvs
    /\ scrape_result = <<>>
    /\ page_links = <<>>
    /\ EnrichIdle
    /\ WebIdle

InitScrape == InitQuickScrape \/ InitSlowScrape

\* scraper.py:86-127: the call runs to its end
QuickScrape ==
    /\ pc = "quick_scrape"
    /\ scrape_result' = quick_scrape(env)
    /\ pc' = "fast"
    /\ UNCHANGED <<env, page_links, enrich_vars, web_vars, data, parsed, scraped_results, dispatch_vars,
                   assemble_vars, finish_vars>>

\* scraper.py:129-173: the call runs to its end
SlowScrape ==
    /\ pc = "slow_scrape"
    /\ scrape_result' = slow_scrape(env)
    /\ pc' = "search_page"
    /\ UNCHANGED <<env, page_links, enrich_vars, web_vars, data, parsed, scraped_results, dispatch_vars,
                   assemble_vars, finish_vars>>

\* osaint.py:63-91: scrape_google_page extracts the links or handles the
\* exception slow_scrape has raised, and returns
ScrapeGooglePage ==
    /\ pc = "search_page"
    /\ page_links' = scrape_google_page(scrape_result.outcome, env.scrape_do_no_md, env.found)
    /\ pc' = "categorize"
    /\ UNCHANGED <<env, scrape_result, enrich_vars, web_vars, data, parsed, scraped_results, dispatch_vars,
                   assemble_vars, finish_vars>>

NextScrape ==
    \/ QuickScrape
    \/ SlowScrape
    \/ ScrapeGooglePage

SpecScrape == InitScrape /\ [][NextScrape]_vars


(***************************************************************************)
(* The enrichment pass of get_person_details (osaint.py:389-406) for the   *)
(* person chosen on the selection page: the breach database for every      *)
(* email, username enumeration for every username, provider enumeration    *)
(* for every email.  One action is one turn of one of the three loops.     *)
(***************************************************************************)
\* what the breach-database service does: it answers with a status, or
\* requests.get raises
HibpAnswers == {"200", "404", "429", "raise"}

\* haveibeenpwned.py:9-21: the breach list on 200, None on 404, an
\* exception on every other status
check_breaches(answer) ==
    [raised |-> answer \notin {"200", "404"},
     value  |-> IF answer = "200" THEN "breaches" ELSE None]

\* a loop body without the except clause: a failed lookup leaves no entry
hibp_entry_dropped(results, email, r) ==
    IF r.raised THEN results ELSE (email :> r.value) @@ results

\* osaint.py:391-396: the dict after the loop body for one email
hibp_entry(results, email, r) ==
    (email :> (IF r.raised THEN "Error" ELSE r.value)) @@ results

\* how the subprocess of a command-line tool ends: exit status 0, or not
\* started / non-zero exit status
ToolRuns == {"ok", "failed"}

\* osaint.py:245-262: the accounts found, or the error string; a username
\* of None is refused by subprocess.run
check_sherlock(username, run) ==
    IF username = NoneText \/ run = "failed" THEN "Error" ELSE "accounts"

\* osaint.py:265-283: the sites found, or the error string
check_holehe(email, run) ==
    IF email = NoneText \/ run = "failed" THEN "Error" ELSE "sites"

\* an entry of the timeline
Event(call, arg, failed) == [call |-> call, arg |-> arg, failed |-> failed]

\* asyncio.sleep(6), osaint.py:394
Sleep == Event("sleep", <<>>, FALSE)

\* the graphs of a finished run around a listed person n1
EnrichGraphs ==
    {g \in {FinishedGraph(k, E) :
               k \in {x \in [QueryIds -> NodeKinds] :
                         x[<<"n1">>] = ("type" :> <<"person">>) @@ ("label" :> <<"t">>)},
               E \in SUBSET {<< <<"n1">>, <<"n2">> >>, << <<"n1">>, <<"n3">> >>}} :
        ~SelectionRaises(g)}

\* run_pipeline has returned, person n1 was chosen, and get_person_details
\* has collected its identifiers (osaint.py:373-387)
InitEnrich ==
    /\ pc = "hibp"
    /\ page = total_pages
    /\ links_to_skip = <<>>
    /\ links_to_process = <<>>
    /\ tasks = <<>>
    /\ semaphore = SemaphoreInit
    /\ special_links = <<>>
    /\ scraped_results = <<Document>>
    /\ failed_links = <<>>
    /\ special_tasks = <<>>
    /\ discovered = [l \in LinkPool |-> IF l = LinkPlain THEN Len(scraped_results) ELSE 0]
    /\ overtaken = FALSE
    /\ graph \in EnrichGraphs
    /\ doc_idx = Len(scraped_results)
    /\ prompt_graph = EmptyGraph
    /\ new_data = NoData
    /\ pos = 0
    /\ entry = EmptyDict
    /\ last_outcome = "merged"
    /\ delta = NoDelta
    /\ printed = {}
    /\ session = [context |-> FALSE, browser |-> FALSE, playwright |-> FALSE]
    /\ raised = None
    /\ person_nodes = select_person_nodes(graph)
    /\ person_id = <<"n1">>
    /\ associated = get_person_details(graph, person_id)
    /\ subgraph = <<>>
    /\ data = <<>>
    /\ parsed = <<>>
    /\ env = <<>>
    /\ scrape_result = <<>>
    /\ page_links = <<>>
    /\ EnrichIdle
    /\ WebIdle

\* osaint.py:390-396: one turn of the breach-database loop; the delay is
\* inside the try block, after the call
CheckBreaches ==
    /\ pc = "hibp"
    /\ HasNext(pos, Len(associated[<<"email">>]))
    /\ \E answer \in HibpAnswers :
          LET email == associated[<<"email">>][pos + 1]
              r     == check_breaches(answer)
          IN /\ hibp_results' = hibp_entry(hibp_results, email, r)
             /\ timeline' = timeline \o <<Event("check_breaches", email, r.raised)>>
                                     \o (IF r.raised THEN <<>> ELSE <<Sleep>>)
    /\ pos' = pos + 1
    /\ UNCHANGED <<pc, sherlock_results, holehe_results,
                   graph, doc_idx, prompt_graph, new_data, entry, last_outcome, delta,
                   printed, data, parsed, env, scrape_result, page_links, web_vars,
                   scraped_results, dispatch_vars, finish_vars>>

\* osaint.py:398: the breach-database loop is over
BreachesDone ==
    /\ pc = "hibp"
    /\ ~HasNext(pos, Len(associated[<<"email">>]))
    /\ pc' = "sherlock"
    /\ pos' = 0
    /\ UNCHANGED <<enrich_vars,
                   graph, doc_idx, prompt_graph, new_data, entry, last_outcome, delta,
                   printed, data, parsed, env, scrape_result, page_links, web_vars,
                   scraped_results, dispatch_vars, finish_vars>>

\* osaint.py:399-400: one turn of the username loop
CheckSherlock ==
    /\ pc = "sherlock"
    /\ HasNext(pos, Len(associated[<<"username">>]))
    /\ \E run \in ToolRuns :
          LET username == associated[<<"username">>][pos + 1]
              value    == check_sherlock(username, run)
          IN /\ sherlock_results' = (username :> value) @@ sherlock_results
             /\ timeline' = Append(timeline,
                                   Event("check_sherlock", username, value = "Error"))
    /\ pos' = pos + 1
    /\ UNCHANGED <<pc, hibp_results, holehe_results,
                   graph, doc_idx, prompt_graph, new_data, entry, last_outcome, delta,
                   printed, data, parsed, env, scrape_result, page_links, web_vars,
                   scraped_results, dispatch_vars, finish_vars>>

\* osaint.py:402: the username loop is over
SherlockDone ==
    /\ pc = "sherlock"
    /\ ~HasNext(pos, Len(associated[<<"username">>]))
    /\ pc' = "holehe"
    /\ pos' = 0
    /\ UNCHANGED <<enrich_vars,
                   graph, doc_idx, prompt_graph, new_data, entry, last_outcome, delta,
                   printed, data, parsed, env, scrape_result, page_links, web_vars,
                   scraped_results, dispatch_vars, finish_vars>>

\* osaint.py:403-404: one turn of the provider-enumeration loop
CheckHolehe ==
    /\ pc = "holehe"
    /\ HasNext(pos, Len(associated[<<"email">>]))
    /\ \E run \in ToolRuns :
          LET email == associated[<<"email">>][pos + 1]
              value == check_holehe(email, run)
          IN /\ holehe_results' = (email :> value) @@ holehe_results
             /\ timeline' = Append(timeline, Event("check_holehe", email, value = "Error"))
    /\ pos' = pos + 1
    /\ UNCHANGED <<pc, hibp_results, sherlock_results,
                   graph, doc_idx, prompt_graph, new_data, entry, last_outcome, delta,
                   printed, data, parsed, env, scrape_result, page_links, web_vars,
                   scraped_results, dispatch_vars, finish_vars>>

\* osaint.py:406: the four results are returned
HoleheDone ==
    /\ pc = "holehe"
    /\ ~HasNext(pos, Len(associated[<<"email">>]))
    /\ pc' = "details"
    /\ UNCHANGED <<enrich_vars,
                   graph, doc_idx, prompt_graph, new_data, pos, entry, last_outcome, delta,
                   printed, data, parsed, env, scrape_result, page_links, web_vars,
                   scraped_results, dispatch_vars, finish_vars>>

NextEnrich ==
    \/ CheckBreaches
    \/ BreachesDone
    \/ CheckSherlock
    \/ SherlockDone
    \/ CheckHolehe
    \/ HoleheDone

SpecEnrich == InitEnrich /\ [][NextEnrich]_vars


(***************************************************************************)
(* The web front end (web/app.py:16-54).  Every request is handled by its  *)
(* own thread of the development server; one action is one line of a       *)
(* handler that reads or writes STATE.  A run is named by its number.      *)
(***************************************************************************)
InitWeb ==
    /\ pc = "web"
    /\ page = 0
    /\ links_to_skip = <<>>
    /\ links_to_process = <<>>
    /\ tasks = <<>>
    /\ semaphore = SemaphoreInit
    /\ special_links = <<>>
    /\ scraped_results = <<>>
    /\ failed_links = <<>>
    /\ special_tasks = <<>>
    /\ discovered = [l \in LinkPool |-> 0]
    /\ overtaken = FALSE
    /\ graph = EmptyGraph
    /\ doc_idx = 0
    /\ prompt_graph = EmptyGraph
    /\ new_data = NoData
    /\ pos = 0
    /\ entry = EmptyDict
    /\ last_outcome = None
    /\ delta = NoDelta
    /\ printed = {}
    /\ FinishIdle
    /\ UnitIdle

\* the part of a web action that leaves the pipeline's variables alone
WebOnly ==
    UNCHANGED <<pc, scraped_results, dispatch_vars, assemble_vars, finish_vars,
                data, parsed, env, scrape_result, page_links, enrich_vars>>

\* app.py:21-25: a client posts a target from any page it looks at, and
\* the handler runs the pipeline
PostIndex(c) ==
    /\ handlers[c].at \in {"index", "select", "results"}
    /\ runs < MaxRuns
    /\ runs' = runs + 1
    /\ handlers' = [handlers EXCEPT ![c].at = "ran", ![c].local = runs + 1]
    /\ UNCHANGED State
    /\ WebOnly

\* app.py:26
StorePersons(c) ==
    /\ handlers[c].at = "ran"
    /\ State' = [State EXCEPT !.person_nodes = handlers[c].local]
    /\ handlers' = [handlers EXCEPT ![c].at = "stored_persons"]
    /\ UNCHANGED runs
    /\ WebOnly

\* app.py:27
StoreGraph(c) ==
    /\ handlers[c].at = "stored_persons"
    /\ State' = [State EXCEPT !.graph = handlers[c].local]
    /\ handlers' = [handlers EXCEPT ![c].at = "stored_graph"]
    /\ UNCHANGED runs
    /\ WebOnly

\* app.py:28-29: the selection page is rendered from the handler's local
\* person_nodes
RenderSelection(c) ==
    /\ handlers[c].at = "stored_graph"
    /\ handlers' = [handlers EXCEPT ![c].at = "select", ![c].shown = handlers[c].local]
    /\ UNCHANGED <<State, runs>>
    /\ WebOnly

\* app.py:35-36: the client posts its choice from the selection page, and
\* the handler reads the person list
PostResults(c) ==
    /\ handlers[c].at = "select"
    /\ handlers' = [handlers EXCEPT ![c].at = "read_persons",
                                    ![c].used.person_nodes = State.person_nodes]
    /\ UNCHANGED <<State, runs>>
    /\ WebOnly

\* app.py:37-54: the handler reads the graph, queries it and renders the
\* results page
ReadGraph(c) ==
    /\ handlers[c].at = "read_persons"
    /\ handlers' = [handlers EXCEPT ![c].at = "results", ![c].used.graph = State.graph]
    /\ UNCHANGED <<State, runs>>
    /\ WebOnly

NextWeb ==
    \E c \in Clients :
        \/ PostIndex(c)
        \/ StorePersons(c)
        \/ StoreGraph(c)
        \/ RenderSelection(c)
        \/ PostResults(c)
        \/ ReadGraph(c)

SpecWeb == InitWeb /\ [][NextWeb]_vars


(***************************************************************************)
(* Properties of the dispatch phase, checked under Spec.                   *)
(***************************************************************************)
\* the last n members of list s
Suffix(s, n) == SubSeq(s, Len(s) - n + 1, Len(s))

\* a batch has just been collected: its tasks and its two link lists are
\* still in the locals
BatchCollected == pc \in {"search", "escalate"} /\ page > 0

\* the step in which gather returns and the batch's results are collected
CollectStep == pc = "fast" /\ pc' # "fast"

\* tasks of list ts whose retrieval ended in a failure
FailedTasks(ts) == {t \in 1..Len(ts) : ts[t].outcome \in FastFailures}

\* tasks of list ts whose retrieval returned content
OkTasks(ts) == {t \in 1..Len(ts) : ts[t].outcome = "ok"}

\* C1: no fast-tier task is ever created for a skip-listed link, in any
\* batch, and once the batch is collected its skip-listed links, which are
\* all the links categorize_links put aside, close the escalation set.
C1_SkipListedNeverFast ==
    /\ \A t \in 1..Len(tasks) : ~IsSkipListed(tasks[t].link)
    /\ \A i \in 1..Len(links_to_skip) : IsSkipListed(links_to_skip[i])
    /\ BatchCollected =>
          /\ Len(special_links) >= Len(links_to_skip)
          /\ Suffix(special_links, Len(links_to_skip)) = links_to_skip

\* a collected batch that held a skip-listed link beside fetched ones
C1_Witness ==
    /\ BatchCollected
    /\ links_to_skip # <<>>
    /\ OkTasks(tasks) # {}
    /\ FailedTasks(tasks) # {}

\* C2: when a batch is collected, the fast-tier successes plus the links the
\* batch adds to the escalation set are as many as the processable plus the
\* skip-listed links of the batch, and each success yields one document.
C2_BatchAccounting ==
    [][CollectStep =>
        /\ Cardinality(OkTasks(tasks)) + (Len(special_links') - Len(special_links))
              = Len(links_to_process) + Len(links_to_skip)
        /\ Len(scraped_results') - Len(scraped_results) = Cardinality(OkTasks(tasks))
      ]_vars

\* a collected batch of three links: one skip-listed, one fetched, one failed
C2_Witness ==
    /\ BatchCollected
    /\ Len(links_to_skip) = 1
    /\ Cardinality(OkTasks(tasks)) = 1
    /\ Cardinality(FailedTasks(tasks)) = 1
    /\ Len(special_links) = 2
    /\ Len(scraped_results) = 1

\* C3: at most 2 fast-tier fetches are in flight at any time.
C3_AtMostTwoInFlight == Cardinality(InFlight) <= 2

\* two fetches in flight while a third task of the batch waits at the gate
C3_Witness ==
    /\ Cardinality(InFlight) = 2
    /\ \E t \in 1..Len(tasks) : tasks[t].st = "pending"

\* C4: once any escalation task has started, every fast-tier task of every
\* batch is done and all batches have been collected.
C4_EscalationAfterFastTier ==
    (\E u \in 1..Len(special_tasks) : special_tasks[u].st # "pending") =>
        /\ \A t \in 1..Len(tasks) : tasks[t].st = "done"
        /\ page = total_pages
        /\ pc \in {"special", "assemble"}

\* an escalation task has run for a link whose fast-tier fetch failed in the
\* last batch, beside a fetch that succeeded
C4_Witness ==
    /\ pc = "special"
    /\ \E u \in 1..Len(special_tasks) : special_tasks[u].st = "done"
    /\ \E t \in FailedTasks(tasks) :
          \E u \in 1..Len(special_tasks) : special_tasks[u].link = tasks[t].link
    /\ OkTasks(tasks) # {}

\* C5: every fast-tier task calls quick_scrape once at most, and once when
\* it has started; no failure leaves the dispatcher; and when the batch is
\* collected each processable link joins the escalation set exactly as many
\* times as tasks for it failed, whatever the kind of failure.
C5_FailureEscalatedOnce ==
    [][/\ \A t \in 1..Len(tasks') :
             /\ tasks'[t].fetches <= 1
             /\ tasks'[t].st # "pending" => tasks'[t].fetches = 1
       /\ pc' # "aborted"
       /\ CollectStep =>
             /\ Len(special_links') >= Len(special_links)
             /\ SubSeq(special_links', 1, Len(special_links)) = special_links
             /\ \A l \in LinkPool :
                   ~IsSkipListed(l) =>
                      Count(l, special_links') - Count(l, special_links)
                         = Cardinality({t \in FailedTasks(tasks) : tasks[t].link = l})
      ]_vars

\* a collected batch in which the same link was fetched twice, failing once
\* as RateLimited and succeeding once, beside a CaptchaDetected failure
C5_Witness ==
    /\ BatchCollected
    /\ \E t, u, w \in 1..Len(tasks) :
          /\ t # u
          /\ tasks[t].link = tasks[u].link
          /\ tasks[t].outcome = "RateLimited"
          /\ tasks[u].outcome = "ok"
          /\ tasks[w].outcome = "CaptchaDetected"
          /\ Count(tasks[t].link, special_links) = 1

(***************************************************************************)
(* Properties of the assembler, checked under SpecAssemble.                *)
(***************************************************************************)
\* the assembler is between two documents
DocumentDone == pc = "assemble" /\ doc_idx > 0

\* the step in which a returned node is merged into the graph
NodeMerged == pc = "nodes" /\ pos' = pos + 1

\* the step in which a returned edge is inserted into the graph
EdgeInserted == pc = "edges" /\ pos' = pos + 1

\* the relationship labels the graph holds on edges from u to v
RelationshipsHeld(g, u, v) ==
    IF <<u, v>> \in DOMAIN g.edge /\ "relationship" \in DOMAIN g.edge[<<u, v>>]
    THEN {g.edge[<<u, v>>]["relationship"]}
    ELSE {}

\* C6: after a document whose response could not be parsed or fully
\* applied, the graph is the graph the document started from.
C6_FailedDocumentLeavesGraph ==
    (DocumentDone /\ last_outcome = "failed") => graph = prompt_graph

\* C7: a delta whose nodes and edges lists are both empty leaves the graph
\* as it was and ends the try block without an exception.
C7_EmptyDeltaNoOp ==
    (DocumentDone /\ new_data.kind = "delta"
        /\ new_data.n_nodes = 0 /\ new_data.n_edges = 0) =>
        /\ graph = prompt_graph
        /\ last_outcome = "merged"

\* an empty delta has been applied to a graph that has nodes and an edge
C7_Witness ==
    /\ DocumentDone
    /\ new_data = [kind |-> "delta", n_nodes |-> 0, n_edges |-> 0]
    /\ DOMAIN graph.edge # {}
    /\ \E n \in DOMAIN graph.node : "_comment" \in DOMAIN graph.node[n]

\* C8: merging a returned node whose id is already a node adds no node and
\* changes no other node; the node then has the keys of its old attributes
\* and of the returned ones, with the returned value for every returned key
\* and the old value for the others.
C8_NodeMergeIsUnion ==
    [][(NodeMerged /\ entry'["id"] \in DOMAIN graph.node) =>
        LET n == entry'["id"] IN
        /\ Cardinality(DOMAIN graph'.node) = Cardinality(DOMAIN graph.node)
        /\ DOMAIN graph'.node = DOMAIN graph.node
        /\ \A m \in DOMAIN graph.node \ {n} : graph'.node[m] = graph.node[m]
        /\ DOMAIN graph'.node[n] = DOMAIN graph.node[n] \cup DOMAIN entry'
        /\ \A k \in DOMAIN graph'.node[n] :
              graph'.node[n][k] = IF k \in DOMAIN entry' THEN entry'[k]
                                  ELSE graph.node[n][k]
        /\ graph'.edge = graph.edge
      ]_vars

\* the first node of a delta has met a node that had a label and another
\* annotation: the label is kept, the annotation is the returned one
C8_Witness ==
    /\ pc = "nodes"
    /\ pos = 1
    /\ "id" \in DOMAIN entry
    /\ entry["id"] \in DOMAIN prompt_graph.node
    /\ "label" \in DOMAIN prompt_graph.node[entry["id"]]
    /\ "label" \notin DOMAIN entry
    /\ "_comment" \in DOMAIN prompt_graph.node[entry["id"]]
    /\ "_comment" \in DOMAIN entry
    /\ prompt_graph.node[entry["id"]]["_comment"] # entry["_comment"]
    /\ Cardinality(DOMAIN graph.node) = 2

\* C9, as claimed: when the returned node and the existing node both carry
\* an annotation, the merged annotation is the earlier one followed by the
\* newer one.
C9_AnnotationAppended ==
    [][(/\ NodeMerged
        /\ entry'["id"] \in DOMAIN graph.node
        /\ "_comment" \in DOMAIN graph.node[entry'["id"]]
        /\ "_comment" \in DOMAIN entry') =>
        graph'.node[entry'["id"]]["_comment"]
            = graph.node[entry'["id"]]["_comment"] \o entry'["_comment"]
      ]_vars

\* C9, amended: the merged node's annotation is the returned annotation
\* alone when the returned node carries one; the earlier annotation stays
\* only when the returned node carries none.
C9_AnnotationReplaced ==
    [][(/\ NodeMerged
        /\ entry'["id"] \in DOMAIN graph.node
        /\ "_comment" \in DOMAIN graph.node[entry'["id"]]) =>
        /\ "_comment" \in DOMAIN graph'.node[entry'["id"]]
        /\ graph'.node[entry'["id"]]["_comment"]
              = IF "_comment" \in DOMAIN entry' THEN entry'["_comment"]
                ELSE graph.node[entry'["id"]]["_comment"]
      ]_vars

\* an annotated node has met a returned node with a different annotation,
\* and holds the returned one
C9_Witness ==
    /\ pc = "nodes"
    /\ pos = 1
    /\ "id" \in DOMAIN entry
    /\ entry["id"] \in DOMAIN prompt_graph.node
    /\ "_comment" \in DOMAIN prompt_graph.node[entry["id"]]
    /\ prompt_graph.node[entry["id"]]["_comment"] = <<"c1">>
    /\ "_comment" \in DOMAIN entry
    /\ entry["_comment"] = <<"c2">>
    /\ graph.node[entry["id"]]["_comment"] = <<"c2">>

\* C10: inserting an edge between a pair that already has an edge with
\* another relationship label leaves the graph with both labels on edges of
\* that pair.
C10_BothEdgesKept ==
    [][(/\ EdgeInserted
        /\ RelationshipsHeld(graph, entry'["source"], entry'["target"]) # {}
        /\ entry'["relationship"]
              \notin RelationshipsHeld(graph, entry'["source"], entry'["target"])) =>
        (RelationshipsHeld(graph, entry'["source"], entry'["target"])
            \cup {entry'["relationship"]})
           \subseteq RelationshipsHeld(graph', entry'["source"], entry'["target"])
      ]_vars

(***************************************************************************)
(* Properties of a repeated delta, checked under SpecReplay.               *)
(***************************************************************************)
\* the step in which the delta of the previous document is merged again
ReplayStep == doc_idx > 0 /\ doc_idx' = doc_idx + 1 /\ delta' = delta

\* the edges of g from u to v whose relationship is r
EdgesOfTriple(g, u, v, r) ==
    {p \in DOMAIN g.edge :
        /\ p = <<u, v>>
        /\ "relationship" \in DOMAIN g.edge[p]
        /\ g.edge[p]["relationship"] = r}

\* the well-formed edge objects of delta d
WellFormedEdges(d) ==
    {d.edges[i] : i \in {j \in 1..Len(d.edges) :
        {"source", "target", "relationship"} \subseteq DOMAIN d.edges[j]}}

\* C11: merging a delta a second time changes nothing: the graph after the
\* second merge equals the graph after the first, and the graph holds at
\* most one edge for each (source, target, relationship) triple
C11_ReplayIsIdempotent ==
    [][ReplayStep =>
          /\ graph' = graph
          /\ \A e \in WellFormedEdges(delta) :
                Cardinality(EdgesOfTriple(graph', e["source"], e["target"],
                                          e["relationship"])) <= 1]_vars

\* a delta with a node that overwrites an annotation and with an edge has
\* been merged twice
C11_Witness ==
    /\ doc_idx = Len(scraped_results)
    /\ doc_idx > 2
    /\ last_outcome = "merged"
    /\ Len(delta.edges) > 0
    /\ Len(delta.nodes) > 0
    /\ "_comment" \in DOMAIN delta.nodes[1]
    /\ delta.nodes[1]["id"] = <<"n1">>
    /\ delta.nodes[1]["_comment"] = <<"c2">>

(***************************************************************************)
(* Properties of the graph queries, checked under SpecFinish.              *)
(***************************************************************************)
\* there is a directed path of at least one edge from n to m; a path that
\* visits no node twice has fewer edges than the graph has nodes
Reachable(g, n, m) ==
    \E len \in 1..(Cardinality(DOMAIN g.node) - 1) :
        \E path \in [1..(len + 1) -> DOMAIN g.node] :
            /\ path[1] = n
            /\ path[len + 1] = m
            /\ \A i \in 1..len : <<path[i], path[i + 1]>> \in DOMAIN g.edge

\* C12: the subgraph returned for the chosen node holds that node and the
\* nodes a directed path leads to from it, each with the graph's data, no
\* other node, and exactly the graph's edges between two of these nodes
C12_SubgraphIsReachablePart ==
    pc = "results" =>
        LET S == {person_id} \cup
                 {m \in DOMAIN graph.node : Reachable(graph, person_id, m)}
            E == {p \in DOMAIN graph.edge : p[1] \in S /\ p[2] \in S}
        IN /\ DOMAIN subgraph.node = S
           /\ \A n \in S : subgraph.node[n] = graph.node[n]
           /\ DOMAIN subgraph.edge = E
           /\ \A p \in E : subgraph.edge[p] = graph.edge[p]

\* the subgraph holds a node that is two edges away and no direct
\* successor, and an edge that leads back to the chosen node
C12_Witness ==
    /\ pc = "results"
    /\ \E m \in DOMAIN subgraph.node :
          /\ m # person_id
          /\ m \notin neighbors(graph, person_id)
          /\ <<m, person_id>> \in DOMAIN subgraph.edge

\* the members of list s
Range(s) == {s[i] : i \in 1..Len(s)}

\* label l belongs to a direct successor of n whose type is t
DirectLabel(g, n, t, l) ==
    \E m \in DOMAIN g.node :
        /\ <<n, m>> \in DOMAIN g.edge
        /\ Get(g.node[m], "type") = t
        /\ Get(g.node[m], "label") = l

\* label l belongs to a successor of type t of a social_media successor of n
SocialLabel(g, n, t, l) ==
    \E sm \in DOMAIN g.node, k \in DOMAIN g.node :
        /\ <<n, sm>> \in DOMAIN g.edge
        /\ Get(g.node[sm], "type") = <<"social_media">>
        /\ <<sm, k>> \in DOMAIN g.edge
        /\ Get(g.node[k], "type") = t
        /\ Get(g.node[k], "label") = l

\* every label a node can carry, a missing one reading as None
AllLabels(g) == {Get(g.node[m], "label") : m \in DOMAIN g.node}

\* C13: for the chosen node, the email and the username list hold exactly
\* the labels of the direct successors of that type and of the successors
\* of that type of the social_media successors; the phone list holds
\* exactly the labels of the direct phone successors; no list holds a
\* label twice
C13_AssociatedIdentifiers ==
    pc = "results" =>
        \A t \in {<<"email">>, <<"username">>, <<"phone">>} :
            /\ Cardinality(Range(associated[t])) = Len(associated[t])
            /\ Range(associated[t]) \subseteq AllLabels(graph)
            /\ \A l \in AllLabels(graph) :
                  l \in Range(associated[t]) <=>
                      \/ DirectLabel(graph, person_id, t, l)
                      \/ t # <<"phone">> /\ SocialLabel(graph, person_id, t, l)

\* person -> social_media -> email: the email is listed though it is no
\* direct successor
C13_Witness ==
    /\ pc = "results"
    /\ associated[<<"email">>] = << <<"a">> >>
    /\ SocialLabel(graph, person_id, <<"email">>, <<"a">>)
    /\ ~DirectLabel(graph, person_id, <<"email">>, <<"a">>)

(***************************************************************************)
(* Properties of the end of the run, checked under SpecFinish.             *)
(***************************************************************************)
\* the run has ended: it was aborted by an exception, or it has returned
RunEnded == pc \in {"aborted", "returned", "results"}

\* context, browser and playwright are all closed
TornDown == ~session.context /\ ~session.browser /\ ~session.playwright

\* C18: when the run has ended, by returning or by an exception raised
\* while the snapshot is written, the visualization is rendered or the
\* persons are selected, the browser session has been torn down
C18_SessionTornDownAtExit == RunEnded => TornDown

\* C19: whatever graph the oracle's deltas have built, person-typed nodes
\* without a label included, person selection raises nothing and the run
\* returns its person list and the graph
C19_SelectionNeverAborts == raised # "TypeError"

(***************************************************************************)
(* Properties of the parsing step, checked under SpecParse.                *)
(***************************************************************************)
\* the places <<i, j>> at which text holds an object
ObjectsIn(text) ==
    {p \in (1..Len(text)) \X (1..Len(text)) :
        p[1] < p[2] /\ IsObject(SubSeq(text, p[1], p[2]))}

\* C14: when the text holds one object, with any text before and after it,
\* braces included, the parsing step raises nothing and yields that object
C14_EmbeddedObjectParsed ==
    (pc = "assemble" /\ Cardinality(ObjectsIn(data)) = 1) =>
        /\ ~parsed.raised
        /\ \A p \in ObjectsIn(data) : parsed.new_data = loads(SubSeq(data, p[1], p[2]))

(***************************************************************************)
(* Properties of the end of the dispatch phase, checked under Spec.        *)
(***************************************************************************)
\* the documents made from link l
DocsOf(l) == Cardinality({i \in 1..Len(scraped_results) : scraped_results[i].link = l})

\* C15: when the dispatch phase has ended, each link has as many documents
\* and failed-list entries together as the search batches returned it
\* times: every occurrence became exactly one of the two
C15_EveryLinkResolvedOnce ==
    pc = "assemble" =>
        /\ \A l \in LinkPool : discovered[l] = DocsOf(l) + Count(l, failed_links)
        /\ \A i \in 1..Len(failed_links) : failed_links[i] \in LinkPool
        /\ \A i \in 1..Len(scraped_results) : scraped_results[i].link \in LinkPool

\* a link was returned twice; one occurrence became a document, the other
\* an entry of the failed list
C15_Witness ==
    /\ pc = "assemble"
    /\ \E l \in LinkPool :
          /\ discovered[l] > 1
          /\ DocsOf(l) > 0
          /\ Count(l, failed_links) > 0

(***************************************************************************)
(* Properties of the escalation tier, checked under SpecEscalate.          *)
(***************************************************************************)
\* the escalation tasks for link l
TasksOf(l) == {t \in 1..Len(special_tasks) : special_tasks[t].link = l}

\* the attempt of task t failed: the handler raised, or the last answer of
\* the scraping API has a status outside 200..299
EscalationFailed(t) ==
    LET r == special_tasks[t].result
    IN \/ r.error # None
       \/ r.statuses # <<>> /\ r.statuses[Len(r.statuses)] \notin 200..299

\* C16: when the escalation tier has ended, every failed attempt has put
\* its link on the failed list and has made no document, and no task ran a
\* second time
C16_FailedEscalationRecorded ==
    pc = "assemble" =>
        \A l \in LinkPool :
            LET failed == {t \in TasksOf(l) : EscalationFailed(t)}
            IN /\ Count(l, failed_links) >= Cardinality(failed)
               /\ DocsOf(l) <= Cardinality(TasksOf(l)) - Cardinality(failed)
               /\ \A t \in TasksOf(l) : special_tasks[t].runs <= 1

\* the escalation tasks have been created
TasksCreated == pc = "special" \/ (pc = "assemble" /\ special_links # <<>>)

\* there is one task for each member of the escalation set, and it runs
\* once
DispatchedOnce ==
    /\ Len(special_tasks) = Len(special_links)
    /\ \A t \in 1..Len(special_tasks) :
          /\ special_tasks[t].link = special_links[t]
          /\ special_tasks[t].runs = IF special_tasks[t].st = "done" THEN 1 ELSE 0
          /\ pc = "assemble" => special_tasks[t].st = "done"

\* task t called the scraping API once, and a second time exactly when the
\* first answer had status 400
OneCallAndRetryOn400(t) ==
    LET r == special_tasks[t].result
    IN /\ r.requests \in {1, 2}
       /\ r.requests = 2 <=> (r.statuses # <<>> /\ r.statuses[1] = 400)

\* C17: every member of the escalation set gets one task that runs once;
\* the task calls the scraping API once, and a second time exactly when
\* the first answer had status 400
C17_EveryTaskCallsApi ==
    TasksCreated =>
        /\ DispatchedOnce
        /\ \A t \in 1..Len(special_tasks) :
              special_tasks[t].st = "done" => OneCallAndRetryOn400(t)

\* C17, amended: every member of the escalation set gets one task that
\* runs once; for a LinkedIn profile link the task does not call the
\* scraping API at all, for any other link it calls it once, and a second
\* time exactly when the first answer had status 400
C17_OtherLinksCallApi ==
    TasksCreated =>
        /\ DispatchedOnce
        /\ \A t \in 1..Len(special_tasks) :
              special_tasks[t].st = "done" =>
                  IF IsLinkedInProfile(special_tasks[t].link)
                  THEN special_tasks[t].result.requests = 0
                  ELSE OneCallAndRetryOn400(t)

\* a LinkedIn profile link made no call, another link made two, and a
\* status other than 400 was not retried
C17_Witness ==
    /\ pc = "assemble"
    /\ \E t \in 1..Len(special_tasks), u \in 1..Len(special_tasks) :
          /\ IsLinkedInProfile(special_tasks[t].link)
          /\ special_tasks[t].result.requests = 0
          /\ ~IsLinkedInProfile(special_tasks[u].link)
          /\ special_tasks[u].result.statuses = <<400, 500>>

(***************************************************************************)
(* Properties of quick_scrape, checked under SpecScrape.                   *)
(***************************************************************************)
\* the call has ended
ScrapeEnded == pc = "fast" /\ scrape_result # <<>>

\* the page was opened and the server answered with status 429
Answered429 == env.new_page /\ env.goto = "429"

\* the page was opened, the server answered with another status, the page
\* could be inspected and shows a marker
MarkerSeen ==
    /\ env.new_page
    /\ env.goto \in {"200", "500"}
    /\ env.is_visible
    /\ env.visible # {}

\* some call to the browser raised, or the navigation gave no response
OtherFailure ==
    \/ ~env.new_page
    \/ env.goto \in {"raise", "None"}
    \/ env.goto \in {"200", "500"} /\ ~env.is_visible
    \/ env.goto \in {"200", "500"} /\ env.is_visible /\ env.visible = {} /\ ~env.content

\* C20: a call ends with the content, with RateLimited, with
\* CaptchaDetected or with the generic error; with RateLimited exactly when
\* the status is 429, with CaptchaDetected exactly when a marker is seen,
\* and with the generic error on every other failure, a failure to open
\* the page included
C20_FourOutcomes ==
    ScrapeEnded =>
        /\ scrape_result.outcome \in {"ok", "RateLimited", "CaptchaDetected", "Error"}
        /\ scrape_result.outcome = "RateLimited" <=> Answered429
        /\ scrape_result.outcome = "CaptchaDetected" <=> MarkerSeen
        /\ scrape_result.outcome = "Error" <=> OtherFailure

(***************************************************************************)
(* Properties of the order of oracle calls and merges, checked under       *)
(* SpecAssemble.                                                           *)
(***************************************************************************)
\* a step in which the loop takes the next document and calls the oracle
OracleCalled == doc_idx' = doc_idx + 1

\* a step in which a merge changes the graph
GraphMerged == graph' # graph

\* C21: oracle calls and merges alternate in document order.  The oracle is
\* called only when no merge loop is running, the graph in its prompt is the
\* graph all earlier merges have left, and the call itself does not touch
\* the graph; the graph changes only inside the merge loops of the latest
\* document, while no further document is taken and the prompt stays as it
\* was sent.
C21_CallsAndMergesAlternate ==
    [][ /\ OracleCalled =>
              /\ pc = "assemble"
              /\ prompt_graph' = graph
              /\ graph' = graph
        /\ GraphMerged =>
              /\ pc \in {"nodes", "edges"}
              /\ doc_idx' = doc_idx
              /\ prompt_graph' = prompt_graph ]_vars

\* the second document's call has been made with a graph that holds an edge
\* of the first document's delta
C21_Witness ==
    /\ doc_idx = 2
    /\ DOMAIN prompt_graph.edge # {}

\* C30: no step of the assembler loop removes a node or an edge: the node
\* ids and the ordered edge pairs of the graph after a step include those
\* before it, whatever the oracle returned.
C30_GraphOnlyGrows ==
    [][ /\ DOMAIN graph.node \subseteq DOMAIN graph'.node
        /\ DOMAIN graph.edge \subseteq DOMAIN graph'.edge ]_vars

\* the second document failed or came back with an error status and the
\* graph still holds the nodes and edges of the first
C30_Witness ==
    /\ doc_idx = 2
    /\ last_outcome \in {"failed", "error_status"}
    /\ DOMAIN graph.node # {}
    /\ DOMAIN graph.edge # {}

(***************************************************************************)
(* Properties of the two retrieval modes and of scrape_google_page,        *)
(* checked under SpecScrape.                                               *)
(***************************************************************************)
\* a quick_scrape or slow_scrape call has ended
RetrievalEnded == pc \in {"fast", "search_page", "categorize"}

\* the slow_scrape call has ended, scrape_google_page has not yet handled it
SlowEnded == pc = "search_page"

\* scrape_google_page has returned
PageReturned == pc = "categorize"

\* C22: when a retrieval, fast or slow, has ended, with the content, with
\* RateLimited, with CaptchaDetected or with the generic error, the page it
\* opened has been closed.
C22_PageClosedOnEveryExit ==
    RetrievalEnded =>
        (scrape_result.opened => scrape_result.closes >= 1)

\* a slow retrieval has ended in CaptchaDetected and its page is closed
C22_Witness ==
    /\ SlowEnded
    /\ scrape_result.outcome = "CaptchaDetected"
    /\ scrape_result.opened
    /\ scrape_result.closes >= 1

\* the part of the environment both retrieval modes meet
PageState(e) ==
    [new_page |-> e.new_page, goto |-> e.goto, is_visible |-> e.is_visible,
     visible |-> e.visible, content |-> e.content]

\* C23: on a page whose body element is there, slow retrieval signals
\* RateLimited exactly when fast retrieval of the same page state would, and
\* CaptchaDetected exactly when fast retrieval would.
C23_SlowDetectsAsFast ==
    (SlowEnded /\ env.wait_for_selector) =>
        /\ scrape_result.outcome = "RateLimited"
              <=> quick_scrape(PageState(env)).outcome = "RateLimited"
        /\ scrape_result.outcome = "CaptchaDetected"
              <=> quick_scrape(PageState(env)).outcome = "CaptchaDetected"

\* slow_scrape has signaled RateLimited or CaptchaDetected
Signaled == scrape_result.outcome \in {"RateLimited", "CaptchaDetected"}

\* C24: when slow_scrape signals RateLimited or CaptchaDetected and the
\* scraping API's raw-markup call returns, scrape_google_page returns the
\* links of that markup; a page with result links yields the empty list
\* only after a generic error or after a fallback that failed too.
C24_FallbackOnSignaledCondition ==
    PageReturned =>
        /\ (Signaled /\ env.scrape_do_no_md) => page_links = env.found
        /\ (page_links = <<>> /\ env.found # <<>>) =>
              \/ ~Signaled
              \/ ~env.scrape_do_no_md

(***************************************************************************)
(* Properties of the diagnostic output of the assembler loop, checked      *)
(* under SpecAssemble.                                                     *)
(***************************************************************************)
\* the loop body has ended for a document whose oracle call returned an
\* error status, or whose delta did not parse or did not apply
DocumentFailed ==
    /\ pc = "assemble"
    /\ doc_idx > 0
    /\ last_outcome \in {"failed", "error_status"}

\* C25: when a document of run_pipeline ends with an oracle error status or
\* with a delta that fails to parse or apply, the loop has printed at least
\* one message about the failure before it goes on.
C25_FailureIsPrinted == DocumentFailed => printed # {}

(***************************************************************************)
(* Properties of the enrichment pass, checked under SpecEnrich.            *)
(***************************************************************************)
\* get_person_details has returned
DetailsReturned == pc = "details"

\* the result map a lookup writes to
ResultsOf(call) ==
    CASE call = "check_breaches" -> hibp_results
      [] call = "check_sherlock" -> sherlock_results
      [] call = "check_holehe"   -> holehe_results

\* the lookups made so far
Lookups == {i \in 1..Len(timeline) : timeline[i].call # "sleep"}

\* C26: a lookup that failed has left the error value in the entry of its
\* identifier and no exception has left get_person_details; when the pass
\* has returned, every collected email has an entry in the breach map and
\* in the provider map and every collected username one in the username
\* map, so the lookups after a failed one have run.
C26_LookupFailureIsStored ==
    /\ raised = None
    /\ \A i \in Lookups :
          LET ev == timeline[i]
          IN /\ ev.arg \in DOMAIN ResultsOf(ev.call)
             /\ ev.failed => ResultsOf(ev.call)[ev.arg] = "Error"
    /\ DetailsReturned =>
          /\ DOMAIN hibp_results = Range(associated[<<"email">>])
          /\ DOMAIN holehe_results = Range(associated[<<"email">>])
          /\ DOMAIN sherlock_results = Range(associated[<<"username">>])

\* the pass has returned after the breach lookup of the first of two emails
\* failed
C26_Witness ==
    /\ DetailsReturned
    /\ Len(associated[<<"email">>]) = 2
    /\ timeline[1].call = "check_breaches"
    /\ timeline[1].failed

\* C27: between two consecutive calls of the breach-database service the
\* delay elapses: a call is never followed at once by the next call.
C27_DelayBetweenBreachCalls ==
    \A i \in 1..(Len(timeline) - 1) :
        timeline[i].call = "check_breaches" => timeline[i + 1].call # "check_breaches"

(***************************************************************************)
(* Properties of the escalation fan-out, checked under SpecFanOut.         *)
(***************************************************************************)
\* task u is the next task of the ready queue
NextReady(u) ==
    /\ special_tasks[u].st = "pending"
    /\ \A w \in 1..(u - 1) : special_tasks[w].st # "pending"

\* C28: while the request of an earlier escalation task is in flight, the
\* request of the next task can be issued, so that two fetches are
\* outstanding at the same time.
C28_RequestsOverlap ==
    pc = "special" =>
        \A u \in 1..Len(special_tasks) :
            (NextReady(u) /\ \E t \in 1..(u - 1) : special_tasks[t].st = "in_flight")
                => ENABLED IssueRequest(u)

(***************************************************************************)
(* Properties of the web front end, checked under SpecWeb.                 *)
(***************************************************************************)
\* C29: the results request of a client is answered from the person list
\* and the graph of the run that produced the selection list its choice
\* was made from, whatever other requests were handled in between.
C29_ResultsFromOwnRun ==
    \A c \in Clients :
        handlers[c].at = "results" =>
            /\ handlers[c].used.person_nodes = handlers[c].shown
            /\ handlers[c].used.graph = handlers[c].shown

(***************************************************************************)
(* Properties of the endpoints of edges, checked under SpecAssemble.       *)
(***************************************************************************)
\* node n has been supplied by a node entry of some delta: add_node has
\* stored the entry, "id" included, in its attributes
SuppliedAsNode(n) == "id" \in DOMAIN graph.node[n]

\* C32: the source and the target of every edge are nodes of the graph, and
\* a node that no delta has supplied as a node, made by an edge that names
\* it, carries no attribute at all, so no label, type or source.
C32_NoDanglingEdge ==
    /\ \A e \in DOMAIN graph.edge :
          /\ e[1] \in DOMAIN graph.node
          /\ e[2] \in DOMAIN graph.node
    /\ \A n \in DOMAIN graph.node :
          ~SuppliedAsNode(n) => graph.node[n] = EmptyDict

\* an edge has been merged of which one endpoint was supplied as a node and
\* the other was not
C32_Witness ==
    \E e \in DOMAIN graph.edge :
        /\ e[1] \in DOMAIN graph.node
        /\ e[2] \in DOMAIN graph.node
        /\ SuppliedAsNode(e[1])
        /\ ~SuppliedAsNode(e[2])

(***************************************************************************)
(* Properties of the order of the documents, checked under Spec.           *)
(***************************************************************************)
\* the document of a task
DocumentOf(t) == [link |-> t.link, content |-> t.result.content]

\* the documents of the tasks of list ts that meet Test, in list order
DocumentsInListOrder(ts, Test(_)) ==
    LET kept == SelectSeq(ts, Test)
    IN [i \in 1..Len(kept) |-> DocumentOf(kept[i])]

\* the retrieval of the fast-tier task returned content
Fetched(t) == t.outcome = "ok"

\* the handler of the escalation task returned content
Escalated(t) == Truthy(t.result.content)

\* the step in which the escalation tier is collected
CollectSpecialStep == pc = "special" /\ pc' = "assemble"

\* C31: the document sequence is only ever extended at its end; a collected
\* batch extends it by the documents of its successful fetches in the order
\* of the batch's link list, and the escalation tier by the documents of
\* its successful tasks in the order of the escalation set, in whatever
\* order the fetches have finished.
C31_DocumentsInListOrder ==
    [][ /\ Len(scraped_results') >= Len(scraped_results)
        /\ SubSeq(scraped_results', 1, Len(scraped_results)) = scraped_results
        /\ (CollectStep /\ pc' # "aborted") =>
              scraped_results' = scraped_results \o DocumentsInListOrder(tasks, Fetched)
        /\ CollectSpecialStep =>
              scraped_results' =
                  scraped_results \o DocumentsInListOrder(special_tasks, Escalated)
      ]_vars

\* the dispatch phase has ended; in the last batch a later fetch finished
\* before an earlier one, both returned content, and an escalation task
\* added a document after theirs
C31_Witness ==
    /\ pc = "assemble"
    /\ overtaken
    /\ Cardinality(OkTasks(tasks)) >= 2
    /\ \E u \in 1..Len(special_tasks) : Escalated(special_tasks[u])
    /\ Len(scraped_results) = 3

(***************************************************************************)
(* Properties of the admission gate, checked under SpecBatch.              *)
(***************************************************************************)
\* gather has returned for the batch and its results have been collected
BatchReturned == pc # "fast"

\* C33: a batch whose retrievals all end is collected in the end; by then
\* every task of the batch has passed the gate once and is done, whether
\* its fetch succeeded or failed, and both permits are free.
C33_BatchReturnsWithFreeGate ==
    (pc = "fast") ~>
        (/\ BatchReturned
         /\ semaphore = SemaphoreInit
         /\ \A t \in 1..Len(tasks) :
               /\ tasks[t].st = "done"
               /\ tasks[t].fetches = 1)

\* a batch of three tasks, more than the gate admits at once, has been
\* collected after a failed and a successful fetch, with both permits free
C33_Witness ==
    /\ BatchReturned
    /\ Len(tasks) = 3
    /\ OkTasks(tasks) # {}
    /\ FailedTasks(tasks) # {}
    /\ semaphore = SemaphoreInit

====
